---- MODULE Spec2Model ----
(***************************************************************************)
(* nebula: an interactive chat CLI that drives a chat-completion model     *)
(* through a bounded tool-calling loop (main.go), with the file tools      *)
(* readFile, writeFile and editFile acting on a local file tree.           *)
(*                                                                         *)
(* Text is modelled as a sequence of one-character strings, a path as the  *)
(* sequence of its components, so that trimming, line splitting and        *)
(* filepath.Dir are computed and not assumed.                              *)
(***************************************************************************)
EXTENDS Integers, Sequences, FiniteSets, TLC

(***************************************************************************)
(* Program constant and the bounds of the model.                           *)
(***************************************************************************)
maxToolCallSteps == 5

\* Bounds of the runs that exercise the turn loop:
\* model calls the completion service answers in one run (every later call
\* fails with a transport error)
MaxModelCalls == 6
\* registered-tool calls the model requests in one run
MaxToolRuns == 1
\* lines standard input delivers before end of file
MaxLines == 2

\* Bounds of the runs that exercise the file tools: the same three, and the
\* largest number of lines one read of standard input returns
MaxFileModelCalls == 1
MaxFileToolRuns == 2
MaxFileLines == 3
MaxReadAhead == 2

\* Bounds of the runs of the conversation store: rows saved, clock ticks
MaxTextLen == 3
MaxRows == 3
MaxClock == 1

(***************************************************************************)
(* Text helpers.                                                           *)
(***************************************************************************)
Min(a, b) == IF a < b THEN a ELSE b

IsSpace(c) == c \in {" ", "\t", "\n", "\r"}

RECURSIVE TrimLeft(_)
TrimLeft(s) ==
    IF s = <<>> THEN <<>>
    ELSE IF IsSpace(Head(s)) THEN TrimLeft(Tail(s)) ELSE s

RECURSIVE TrimRight(_)
TrimRight(s) ==
    IF s = <<>> THEN <<>>
    ELSE IF IsSpace(s[Len(s)]) THEN TrimRight(SubSeq(s, 1, Len(s) - 1)) ELSE s

\* strings.TrimSpace
TrimSpace(s) == TrimRight(TrimLeft(s))

\* the literals the code compares with
StrY == <<"y">>
StrUpperY == <<"Y">>
StrExit == <<"e", "x", "i", "t">>
StrQuit == <<"q", "u", "i", "t">>

(***************************************************************************)
(* The file tree.  fs maps every path of the universe to an entry; an      *)
(* entry of kind "none" is a path that does not exist.  The root <<>> is   *)
(* the working directory and always exists.                                *)
(***************************************************************************)
PathNotes == <<"notes.txt">>
PathDir == <<"d">>
PathSub == <<"d", "b.txt">>
AllPaths == {PathNotes, PathDir, PathSub}

ContentA == <<"a">>
ContentANl == <<"a", "\n">>

NoEntry == [kind |-> "none", data |-> <<>>]
DirEntry == [kind |-> "dir", data |-> <<>>]
FileEntry(c) == [kind |-> "file", data |-> c]

\* filepath.Dir
Dir(p) == IF p = <<>> THEN <<>> ELSE SubSeq(p, 1, Len(p) - 1)

KindOf(f, p) == IF p = <<>> THEN "dir" ELSE f[p].kind

\* every proper ancestor of p is a directory
RECURSIVE AncestorsAreDirs(_, _)
AncestorsAreDirs(f, p) ==
    IF p = <<>> THEN TRUE
    ELSE KindOf(f, Dir(p)) = "dir" /\ AncestorsAreDirs(f, Dir(p))

\* os.Stat(p) returns a nil error
StatOK(f, p) == KindOf(f, p) # "none" /\ AncestorsAreDirs(f, p)

\* a file tree the operating system can hold: what exists lies in a directory
WellFormedFS(f) == \A p \in AllPaths : f[p].kind # "none" => AncestorsAreDirs(f, p)

\* os.MkdirAll(dir): creates the missing directories from the root down.
\* created is the number of leading components the system manages to ensure
\* before a failure is injected (Len(dir) when none is).
RECURSIVE MkdirAll(_, _, _, _)
MkdirAll(f, dir, depth, created) ==
    IF depth > Len(dir) THEN [ok |-> TRUE, fs |-> f]
    ELSE LET q == SubSeq(dir, 1, depth)
         IN IF KindOf(f, q) = "dir" THEN MkdirAll(f, dir, depth + 1, created)
            ELSE IF KindOf(f, q) = "file" THEN [ok |-> FALSE, fs |-> f]
            ELSE IF depth > created THEN [ok |-> FALSE, fs |-> f]
            ELSE MkdirAll([f EXCEPT ![q] = DirEntry], dir, depth + 1, created)

\* what the operating system does to the file system calls of a tool
\*   fault: "none", or the call that fails: "mkdir", "create", "write",
\*      "readdir" (reading a directory), "open" (opening a file to search it)
\*   n: for "mkdir" the number of components created before the failure,
\*      for "write" the number of bytes written before the failure
NoFault == [fault |-> "none", n |-> 0]
IOOutcomes ==
    {NoFault, [fault |-> "mkdir", n |-> 0],
     [fault |-> "create", n |-> 0], [fault |-> "write", n |-> 0],
     [fault |-> "write", n |-> 1], [fault |-> "readdir", n |-> 0],
     [fault |-> "open", n |-> 0]}

(***************************************************************************)
(* Tool arguments and results.  The raw argument text of a tool call is    *)
(* abstracted to whether json.Unmarshal decodes it and to the fields it    *)
(* decodes to, or to the message of the error json.Unmarshal returns; a    *)
(* result is the JSON object the tool marshals.                            *)
(***************************************************************************)
Args(p, c) ==
    [decodes |-> TRUE, path |-> p, content |-> c, recursive |-> FALSE,
     keyword |-> <<>>, excludePaths |-> <<>>, decodeError |-> <<>>]
ListArgs(p, r) ==
    [decodes |-> TRUE, path |-> p, content |-> <<>>, recursive |-> r,
     keyword |-> <<>>, excludePaths |-> <<>>, decodeError |-> <<>>]
SearchArgs(p, k, ex) ==
    [decodes |-> TRUE, path |-> p, content |-> <<>>, recursive |-> FALSE,
     keyword |-> k, excludePaths |-> ex, decodeError |-> <<>>]
\* argument text cut short: json.Unmarshal reports the end of the input
BadArgs ==
    [decodes |-> FALSE, path |-> <<>>, content |-> <<>>, recursive |-> FALSE,
     keyword |-> <<>>, excludePaths |-> <<>>,
     decodeError |-> <<"unexpected end of JSON input">>]
\* argument text with a missing colon or comma, as {"path" "x"}: the syntax
\* error of json.Unmarshal quotes the offending character, here '"'
BadArgsQuote ==
    [BadArgs EXCEPT !.decodeError =
        <<"invalid character ", "'", "\"", "'", " after object key">>]

NoResult == [success |-> FALSE, error |-> "", content |-> <<>>, files |-> <<>>]
\* genErrorResult of WriteFile and EditFile
genErrorResult(errorMessage) ==
    [success |-> FALSE, error |-> errorMessage, content |-> <<>>, files |-> <<>>]
SuccessResult == [success |-> TRUE, error |-> "", content |-> <<>>, files |-> <<>>]

\* the error texts of the tools, by the branch that produces them
ErrExists == "file already exists"
ErrNotFound == "file does not exist"
ErrReadFail == "failed to read file"
ErrNoChange == "no change"
ErrScanFail == "failed to read user response"
ErrCancelled == "cancelled by user"
ErrMkdirFail == "failed to create parent directory"
ErrCreateFail == "failed to create file"
ErrWriteFail == "failed to write file"
ErrOpenFail == "failed to open file"

\* what a tool function returns and does: (result, err), the file tree it
\* leaves, whether it prompted the operator, and its steps in order
Ret(res, e, f, prompted, steps) ==
    [result |-> res, err |-> e, fs |-> f, prompted |-> prompted, steps |-> steps]

\* the operator's answer as the tool's scanner sees it
NoLine == [ok |-> FALSE, text |-> <<>>]
Line(t) == [ok |-> TRUE, text |-> t]

\* the response compared without trimming
ApprovedExact(text) == ~(text # StrY /\ text # StrUpperY)
\* the response check of WriteFile and EditFile: y or Y after trimming
Approved(text) ==
    LET response == TrimSpace(text)
    IN ~(response # StrY /\ response # StrUpperY)

(***************************************************************************)
(* The diff of editFile.                                                   *)
(***************************************************************************)
\* strings.SplitAfter(text, "\n"), without a final empty piece
RECURSIVE splitLines(_, _)
splitLines(text, cur) ==
    IF text = <<>> THEN (IF cur = <<>> THEN <<>> ELSE <<cur>>)
    ELSE IF Head(text) = "\n"
         THEN <<Append(cur, "\n")>> \o splitLines(Tail(text), <<>>)
         ELSE splitLines(Tail(text), Append(cur, Head(text)))

RECURSIVE LCSLen(_, _)
LCSLen(a, b) ==
    IF a = <<>> \/ b = <<>> THEN 0
    ELSE IF Head(a) = Head(b) THEN 1 + LCSLen(Tail(a), Tail(b))
    ELSE LET x == LCSLen(Tail(a), b)
             y == LCSLen(a, Tail(b))
         IN IF x >= y THEN x ELSE y

\* myers.ComputeEdits: a shortest line edit script from a to b
RECURSIVE LineEdits(_, _)
LineEdits(a, b) ==
    IF a = <<>> /\ b = <<>> THEN <<>>
    ELSE IF a = <<>> THEN <<[op |-> "insert", line |-> Head(b)]>> \o LineEdits(a, Tail(b))
    ELSE IF b = <<>> THEN <<[op |-> "delete", line |-> Head(a)]>> \o LineEdits(Tail(a), b)
    ELSE IF Head(a) = Head(b) THEN LineEdits(Tail(a), Tail(b))
    ELSE IF LCSLen(Tail(a), b) >= LCSLen(a, Tail(b))
         THEN <<[op |-> "delete", line |-> Head(a)]>> \o LineEdits(Tail(a), b)
         ELSE <<[op |-> "insert", line |-> Head(b)]>> \o LineEdits(a, Tail(b))

\* a diff of the lines without their line ends
ComputeEditsIgnoresEOL(oldText, newText) ==
    LET Strip(ls) == [i \in 1..Len(ls) |->
                        IF ls[i][Len(ls[i])] = "\n"
                        THEN SubSeq(ls[i], 1, Len(ls[i]) - 1) ELSE ls[i]]
    IN LineEdits(Strip(splitLines(oldText, <<>>)), Strip(splitLines(newText, <<>>)))

ComputeEdits(oldText, newText) ==
    LineEdits(splitLines(oldText, <<>>), splitLines(newText, <<>>))

\* the unified diff text: empty, or the header followed by the edits
\* the diff without the tests for "no change": the header is always there
formatUnifiedDiffAlwaysHeader(oldText, newText) ==
    <<[op |-> "header", line |-> <<>>]>> \o ComputeEdits(oldText, newText)
formatUnifiedDiff(oldText, newText) ==
    IF oldText = newText THEN <<>>
    ELSE LET edits == ComputeEdits(oldText, newText)
         IN IF Len(edits) = 0 THEN <<>>
            ELSE <<[op |-> "header", line |-> <<>>]>> \o edits

(***************************************************************************)
(* The file tools.  resp is the line the tool's own scanner reads from     *)
(* standard input (NoLine at end of file), io the outcome of its file      *)
(* system calls.                                                           *)
(***************************************************************************)
\* the confirmation prompt: scanner.Scan, then the check of the response
Gate(resp) ==
    IF ~resp.ok THEN ErrScanFail
    ELSE IF ~Approved(resp.text) THEN ErrCancelled
    ELSE ""

\* os.Create followed by WriteString, as both tools do after approval
CreateAndWrite(f, path, content, io) ==
    IF io.fault = "create" \/ KindOf(f, path) = "dir" \/ ~AncestorsAreDirs(f, path)
    THEN [error |-> ErrCreateFail, fs |-> f, steps |-> <<"create">>]
    ELSE IF io.fault = "write"
    THEN [error |-> ErrWriteFail,
          fs |-> [f EXCEPT ![path] = FileEntry(SubSeq(content, 1, Min(io.n, Len(content) - 1)))],
          steps |-> <<"create", "write">>]
    ELSE [error |-> "",
          fs |-> [f EXCEPT ![path] = FileEntry(content)],
          steps |-> <<"create", "write">>]

\* WriteFile that does not create the parent directories
WriteApprovedNoMkdir(args, f, io, done) ==
    LET cw == CreateAndWrite(f, args.path, args.content, io)
    IN Ret(IF cw.error = "" THEN SuccessResult ELSE genErrorResult(cw.error),
           "nil", cw.fs, TRUE, done \o <<"mkdir">> \o cw.steps)
\* WriteFile after the approval: parent directories, then the file
WriteApproved(args, f, io, done) ==
    LET dir == Dir(args.path)
        mk == MkdirAll(f, dir, 1, IF io.fault = "mkdir" THEN io.n ELSE Len(dir))
    IN IF ~mk.ok
       THEN Ret(genErrorResult(ErrMkdirFail), "nil", mk.fs, TRUE, done \o <<"mkdir">>)
       ELSE LET cw == CreateAndWrite(mk.fs, args.path, args.content, io)
            IN Ret(IF cw.error = "" THEN SuccessResult ELSE genErrorResult(cw.error),
                   "nil", cw.fs, TRUE, done \o <<"mkdir">> \o cw.steps)

\* WriteFile from the preview on
WritePrompted(args, f, resp, io, done) ==
    LET steps == done \o <<"preview", "gate">>
    IN IF Gate(resp) # ""
       THEN Ret(genErrorResult(Gate(resp)), "nil", f, TRUE, steps)
       ELSE WriteApproved(args, f, io, steps)

\* WriteFile without the check for an existing path
WriteFileNoExistCheck(args, f, resp, io) ==
    IF ~args.decodes THEN Ret(NoResult, "decode", f, FALSE, <<>>)
    ELSE WritePrompted(args, f, resp, io, <<"stat">>)
WriteFile(args, f, resp, io) ==
    IF ~args.decodes THEN Ret(NoResult, "decode", f, FALSE, <<>>)
    ELSE IF StatOK(f, args.path)
    THEN Ret(genErrorResult(ErrExists), "nil", f, FALSE, <<"stat">>)
    ELSE WritePrompted(args, f, resp, io, <<"stat">>)

\* EditFile that opens the file without truncating it: the new content is
\* written over the start of the old one
EditApprovedNoTruncate(args, f, io, done) ==
    LET old == f[args.path].data
        kept == SubSeq(old, Len(args.content) + 1, Len(old))
        cw == CreateAndWrite(f, args.path, args.content \o kept, io)
    IN Ret(IF cw.error = "" THEN SuccessResult ELSE genErrorResult(cw.error),
           "nil", cw.fs, TRUE, done \o cw.steps)

\* EditFile after the approval: the file is truncated and rewritten
EditApproved(args, f, io, done) ==
    LET cw == CreateAndWrite(f, args.path, args.content, io)
    IN Ret(IF cw.error = "" THEN SuccessResult ELSE genErrorResult(cw.error),
           "nil", cw.fs, TRUE, done \o cw.steps)

\* EditFile that writes whatever the operator answers
EditPromptedIgnoresAnswer(args, f, resp, io, done) ==
    IF ~resp.ok
    THEN Ret(genErrorResult(ErrScanFail), "nil", f, TRUE, done \o <<"preview", "gate">>)
    ELSE EditApproved(args, f, io, done \o <<"preview", "gate">>)
\* EditFile from the preview on
EditPrompted(args, f, resp, io, done) ==
    LET steps == done \o <<"preview", "gate">>
    IN IF Gate(resp) # ""
       THEN Ret(genErrorResult(Gate(resp)), "nil", f, TRUE, steps)
       ELSE EditApproved(args, f, io, steps)

\* EditFile once the path is known to exist
EditExisting(args, f, resp, io) ==
    IF KindOf(f, args.path) = "dir"
    THEN Ret(genErrorResult(ErrReadFail), "nil", f, FALSE, <<"stat", "read">>)
    ELSE LET oldContent == f[args.path].data
             diffText == formatUnifiedDiff(oldContent, args.content)
         IN IF diffText = <<>>
            THEN Ret(genErrorResult(ErrNoChange), "nil", f, FALSE, <<"stat", "read", "diff">>)
            ELSE EditPrompted(args, f, resp, io, <<"stat", "read", "diff">>)

\* EditFile that goes on to the prompt and the write when the path is missing
EditFileCreatesMissing(args, f, resp, io) ==
    IF ~args.decodes THEN Ret(NoResult, "decode", f, FALSE, <<>>)
    ELSE IF ~StatOK(f, args.path)
    THEN EditPrompted(args, [f EXCEPT ![args.path] = FileEntry(<<>>)], resp, io, <<"stat">>)
    ELSE EditExisting(args, f, resp, io)
EditFile(args, f, resp, io) ==
    IF ~args.decodes THEN Ret(NoResult, "decode", f, FALSE, <<>>)
    ELSE IF ~StatOK(f, args.path)
    THEN Ret(genErrorResult(ErrNotFound), "nil", f, FALSE, <<"stat">>)
    ELSE EditExisting(args, f, resp, io)

\* ReadFile that returns the error of os.Open as its Go error
ReadFileRaisesOpenError(args, f, resp, io) ==
    IF ~args.decodes THEN Ret(NoResult, "decode", f, FALSE, <<>>)
    ELSE IF ~StatOK(f, args.path)
    THEN Ret(NoResult, "open", f, FALSE, <<"open">>)
    ELSE IF KindOf(f, args.path) = "dir"
    THEN Ret(genErrorResult(ErrReadFail), "nil", f, FALSE, <<"open", "read">>)
    ELSE Ret([success |-> FALSE, error |-> "", content |-> f[args.path].data,
              files |-> <<>>], "nil", f, FALSE, <<"open", "read">>)

ReadFile(args, f, resp, io) ==
    IF ~args.decodes THEN Ret(NoResult, "decode", f, FALSE, <<>>)
    ELSE IF ~StatOK(f, args.path)
    THEN Ret(genErrorResult(ErrOpenFail), "nil", f, FALSE, <<"open">>)
    ELSE IF KindOf(f, args.path) = "dir"
    THEN Ret(genErrorResult(ErrReadFail), "nil", f, FALSE, <<"open", "read">>)
    ELSE Ret([success |-> FALSE, error |-> "", content |-> f[args.path].data,
              files |-> <<>>], "nil", f, FALSE, <<"open", "read">>)


(***************************************************************************)
(* The walking tools, list and searchInDirectory.                          *)
(***************************************************************************)
ErrWalkFail == "failed to walk directory"
ErrReadDirFail == "failed to read directory"
ErrSearchFail == "error during search"

\* the characters of a path component
Chars(name) ==
    CASE name = "notes.txt" -> <<"n", "o", "t", "e", "s", ".", "t", "x", "t">>
      [] name = "d" -> <<"d">>
      [] name = "b.txt" -> <<"b", ".", "t", "x", "t">>

\* the path as the string filepath.Walk and filepath.Join hand out
RECURSIVE PathString(_)
PathString(p) ==
    IF p = <<>> THEN <<".">>
    ELSE IF Len(p) = 1 THEN Chars(p[1])
    ELSE PathString(Dir(p)) \o <<"/">> \o Chars(p[Len(p)])

\* the component names in lexical order, the order of a directory's entries
NameOrder == <<"b.txt", "d", "notes.txt">>

RECURSIVE ChildrenFrom(_, _, _)
ChildrenFrom(f, dir, i) ==
    IF i > Len(NameOrder) THEN <<>>
    ELSE LET c == Append(dir, NameOrder[i])
         IN (IF c \in AllPaths /\ f[c].kind # "none" THEN <<c>> ELSE <<>>)
            \o ChildrenFrom(f, dir, i + 1)

\* os.ReadDir: the entries of dir, sorted by name
Children(f, dir) == ChildrenFrom(f, dir, 1)

\* strings.HasPrefix
HasPrefix(s, prefix) ==
    Len(prefix) <= Len(s) /\ SubSeq(s, 1, Len(prefix)) = prefix

\* strings.Contains
Contains(s, substr) ==
    \E i \in 1..(Len(s) + 1) :
        i + Len(substr) - 1 <= Len(s) /\ SubSeq(s, i, i + Len(substr) - 1) = substr

\* the lines bufio.Scanner delivers: split at "\n", a final "\r" dropped,
\* a last line without "\n" delivered when it is not empty
DropCR(l) == IF l # <<>> /\ l[Len(l)] = "\r" THEN SubSeq(l, 1, Len(l) - 1) ELSE l

\* bufio.MaxScanTokenSize: the buffer of a bufio.NewScanner stops growing
\* at 64 KiB
MaxScanTokenSize == 65536

\* one element of a text that stands for MaxScanTokenSize ordinary
\* characters, none of them a line break or a character of a keyword
LongRun == "x * 65536"

\* the number of bytes of a text
RECURSIVE ByteLen(_)
ByteLen(text) ==
    IF text = <<>> THEN 0
    ELSE (IF Head(text) = LongRun THEN MaxScanTokenSize ELSE 1) + ByteLen(Tail(text))

\* the scanner without the limit on the length of a line
RECURSIVE ScanLinesUnlimited(_, _)
ScanLinesUnlimited(text, cur) ==
    IF text = <<>> THEN (IF cur = <<>> THEN <<>> ELSE <<DropCR(cur)>>)
    ELSE IF Head(text) = "\n"
         THEN <<DropCR(cur)>> \o ScanLinesUnlimited(Tail(text), <<>>)
         ELSE ScanLinesUnlimited(Tail(text), Append(cur, Head(text)))

\* a line that fills the buffer before its line break is found makes Scan
\* return false (ErrTooLong): the lines after it are never delivered
RECURSIVE ScanLines(_, _)
ScanLines(text, cur) ==
    IF ByteLen(cur) >= MaxScanTokenSize THEN <<>>
    ELSE IF text = <<>> THEN (IF cur = <<>> THEN <<>> ELSE <<DropCR(cur)>>)
    ELSE IF Head(text) = "\n"
         THEN <<DropCR(cur)>> \o ScanLines(Tail(text), <<>>)
         ELSE ScanLines(Tail(text), Append(cur, Head(text)))

\* filepath.Walk with the callback of List: every path visited, in order
RECURSIVE ListWalk(_, _)
RECURSIVE ListWalkAll(_, _)
ListWalk(f, p) ==
    IF KindOf(f, p) = "dir" THEN <<p>> \o ListWalkAll(f, Children(f, p)) ELSE <<p>>
ListWalkAll(f, ps) ==
    IF ps = <<>> THEN <<>> ELSE ListWalk(f, Head(ps)) \o ListWalkAll(f, Tail(ps))

FilesResult(files) ==
    [success |-> FALSE, error |-> "", content |-> <<>>, files |-> files]

\* the directories a walk reads among the paths it visits
DirsRead(f, visited) ==
    Cardinality({i \in 1..Len(visited) : KindOf(f, visited[i]) = "dir"})

\* the read of a directory fails during a walk that reads dirsRead of them:
\* io.n directories are read before the one that fails
WalkFails(io, dirsRead) == io.fault = "readdir" /\ io.n < dirsRead

\* List that hands back what the walk collected before it failed
ListKeepsPartial(args, f, resp, io) ==
    IF ~args.decodes THEN Ret(NoResult, "decode", f, FALSE, <<>>)
    ELSE IF args.recursive
    THEN IF ~StatOK(f, args.path)
         THEN Ret(genErrorResult(ErrWalkFail), "nil", f, FALSE, <<"walk">>)
         ELSE IF WalkFails(io, DirsRead(f, ListWalk(f, args.path)))
         THEN Ret([genErrorResult(ErrWalkFail) EXCEPT !.files = <<args.path>>],
                  "nil", f, FALSE, <<"walk">>)
         ELSE Ret(FilesResult(ListWalk(f, args.path)), "nil", f, FALSE, <<"walk">>)
    ELSE IF ~StatOK(f, args.path) \/ KindOf(f, args.path) # "dir" \/ WalkFails(io, 1)
         THEN Ret(genErrorResult(ErrReadDirFail), "nil", f, FALSE, <<"readdir">>)
         ELSE Ret(FilesResult(Children(f, args.path)), "nil", f, FALSE, <<"readdir">>)
List(args, f, resp, io) ==
    IF ~args.decodes THEN Ret(NoResult, "decode", f, FALSE, <<>>)
    ELSE IF args.recursive
    THEN IF ~StatOK(f, args.path) \/ WalkFails(io, DirsRead(f, ListWalk(f, args.path)))
         THEN Ret(genErrorResult(ErrWalkFail), "nil", f, FALSE, <<"walk">>)
         ELSE Ret(FilesResult(ListWalk(f, args.path)), "nil", f, FALSE, <<"walk">>)
    ELSE IF ~StatOK(f, args.path) \/ KindOf(f, args.path) # "dir" \/ WalkFails(io, 1)
         THEN Ret(genErrorResult(ErrReadDirFail), "nil", f, FALSE, <<"readdir">>)
         ELSE Ret(FilesResult(Children(f, args.path)), "nil", f, FALSE, <<"readdir">>)

\* the exclusion check of the search callback
Excluded(p, excludePaths) ==
    \E i \in 1..Len(excludePaths) : HasPrefix(PathString(p), excludePaths[i])

\* the file p has a line that contains the keyword
FileMatches(f, p, keyword) ==
    LET lines == ScanLines(f[p].data, <<>>)
    IN \E i \in 1..Len(lines) : Contains(lines[i], keyword)

\* filepath.Walk with the exclusion check of the callback: the directories
\* and files the callback gets past the check with, in order
RECURSIVE SearchVisit(_, _, _)
RECURSIVE SearchVisitAll(_, _, _)
SearchVisit(f, p, excludePaths) ==
    IF Excluded(p, excludePaths) THEN <<>>
    ELSE IF KindOf(f, p) = "dir"
    THEN <<p>> \o SearchVisitAll(f, Children(f, p), excludePaths)
    ELSE <<p>>
SearchVisitAll(f, ps, excludePaths) ==
    IF ps = <<>> THEN <<>>
    ELSE SearchVisit(f, Head(ps), excludePaths) \o SearchVisitAll(f, Tail(ps), excludePaths)

\* the elements of s at the positions in keep, from position i on, in order
RECURSIVE SelectAt(_, _, _)
SelectAt(s, i, keep) ==
    IF i > Len(s) THEN <<>>
    ELSE (IF i \in keep THEN <<s[i]>> ELSE <<>>) \o SelectAt(s, i + 1, keep)

\* the rest of the callback: each file is opened and scanned for the keyword;
\* with the fault "open", io.n files are opened before the one that fails
SearchWalk(f, p, args, io) ==
    LET visited == SearchVisit(f, p, args.excludePaths)
        opened == SelectAt(visited, 1,
                           {i \in 1..Len(visited) : KindOf(f, visited[i]) # "dir"})
    IN SelectAt(opened, 1,
                {i \in 1..Len(opened) :
                    /\ ~(io.fault = "open" /\ io.n = i - 1)
                    /\ FileMatches(f, opened[i], args.keyword)})

SearchInDirectory(args, f, resp, io) ==
    IF ~args.decodes THEN Ret(NoResult, "decode", f, FALSE, <<>>)
    ELSE IF ~StatOK(f, args.path)
            \/ WalkFails(io, DirsRead(f, SearchVisit(f, args.path, args.excludePaths)))
    THEN Ret(genErrorResult(ErrSearchFail), "nil", f, FALSE, <<"walk">>)
    ELSE Ret(FilesResult(SearchWalk(f, args.path, args, io)), "nil", f, FALSE, <<"walk">>)


(***************************************************************************)
(* The tool registry.                                                      *)
(***************************************************************************)
ToolNames == {"readFile", "list", "searchInDirectory", "writeFile", "editFile"}

\* a ToolDefinition: the name in its schema and the Go function it carries
ToolDefinition(name, function) == [Schema |-> [Name |-> name], Function |-> function]


\* a registry that files writeFile under another key than its schema name
toolsMisnamed ==
    "readFile" :> ToolDefinition("readFile", "ReadFile")
    @@ "list" :> ToolDefinition("list", "List")
    @@ "searchInDirectory" :> ToolDefinition("searchInDirectory", "SearchInDirectory")
    @@ "write_file" :> ToolDefinition("writeFile", "WriteFile")
    @@ "editFile" :> ToolDefinition("editFile", "EditFile")

\* the map main gets from tools.GetAvailableTools()
tools ==
    "readFile" :> ToolDefinition("readFile", "ReadFile")
    @@ "list" :> ToolDefinition("list", "List")
    @@ "searchInDirectory" :> ToolDefinition("searchInDirectory", "SearchInDirectory")
    @@ "writeFile" :> ToolDefinition("writeFile", "WriteFile")
    @@ "editFile" :> ToolDefinition("editFile", "EditFile")

\* the schemas main collects from the map and sends with every request
toolSchemas == {tools[name].Schema : name \in DOMAIN tools}

\* tools[name].Function, applied to (args, fs, resp, io)
ToolFunction(name, args, f, resp, io) ==
    LET function == tools[name].Function
    IN CASE function = "ReadFile" -> ReadFile(args, f, resp, io)
         [] function = "List" -> List(args, f, resp, io)
         [] function = "SearchInDirectory" -> SearchInDirectory(args, f, resp, io)
         [] function = "WriteFile" -> WriteFile(args, f, resp, io)
         [] function = "EditFile" -> EditFile(args, f, resp, io)

\* the keys of the map: the names for which the lookup tools[name] succeeds
GetAvailableTools == DOMAIN tools

(***************************************************************************)
(* Inputs: the lines the operator types and the replies of the model.      *)
(***************************************************************************)
\* lines typed at the confirmation prompt
GateLines ==
    {<<"y">>, <<"Y">>, <<"n">>, <<>>, <<"y", "e", "s">>, <<"Y", " ">>, <<" ", "y">>}

LoopUserLines == {<<"h", "i">>, StrExit, <<" ", "\t">>, <<" ", "q", "u", "i", "t", " ">>}
FileUserLines == {<<"h", "i">>, StrQuit}
LoopGateLines == {<<"y">>, <<"n">>}
LoopIOOutcomes == {NoFault, [fault |-> "write", n |-> 0]}

\* the file trees a run starts from
EmptyTree == [p \in AllPaths |-> NoEntry]
InitTrees ==
    {EmptyTree,
     [EmptyTree EXCEPT ![PathNotes] = FileEntry(ContentA)],
     [EmptyTree EXCEPT ![PathDir] = FileEntry(ContentA)],
     [EmptyTree EXCEPT ![PathDir] = DirEntry, ![PathSub] = FileEntry(ContentANl)]}

LoopTrees == {EmptyTree, [EmptyTree EXCEPT ![PathNotes] = FileEntry(ContentA)]}

\* the tool calls a model reply may carry, before the model assigns ids
CallUnknown == [Name |-> "deleteFile", Arguments |-> Args(PathNotes, ContentA)]
CallWrite(p, c) == [Name |-> "writeFile", Arguments |-> Args(p, c)]
CallWriteBad == [Name |-> "writeFile", Arguments |-> BadArgs]
CallBad(name) == [Name |-> name, Arguments |-> BadArgsQuote]
CallEdit(p, c) == [Name |-> "editFile", Arguments |-> Args(p, c)]
CallRead(p) == [Name |-> "readFile", Arguments |-> Args(p, <<>>)]
CallList(p, r) == [Name |-> "list", Arguments |-> ListArgs(p, r)]
CallSearch(p, k, ex) == [Name |-> "searchInDirectory", Arguments |-> SearchArgs(p, k, ex)]

\* the replies of the runs that exercise the turn loop: the final answer
\* <<>>, and lists of one and two tool calls
LoopReplies ==
    {<<>>,
     <<CallUnknown>>,
     <<CallWrite(PathNotes, ContentA)>>,
     <<CallWriteBad>>,
     <<CallRead(PathNotes)>>,
     <<CallUnknown, CallWrite(PathNotes, ContentA)>>,
     <<CallWrite(PathNotes, ContentA), CallRead(PathNotes)>>,
     <<CallWriteBad, CallUnknown>>}

\* the replies of the runs that exercise the file tools
FileReplies ==
    {<<>>,
     <<CallUnknown>>,
     <<CallWrite(PathNotes, ContentA)>>,
     <<CallWrite(PathSub, ContentA)>>,
     <<CallWriteBad>>,
     <<CallEdit(PathNotes, ContentA)>>,
     <<CallEdit(PathNotes, ContentANl)>>,
     <<CallEdit(PathSub, ContentA)>>,
     <<CallRead(PathNotes)>>,
     <<CallList(<<>>, TRUE)>>,
     <<CallList(PathDir, FALSE)>>,
     <<CallSearch(<<>>, ContentA, <<>>)>>,
     <<CallWrite(PathNotes, ContentA), CallRead(PathNotes)>>,
     <<CallUnknown, CallEdit(PathNotes, ContentANl)>>,
     <<CallWrite(PathSub, ContentANl), CallUnknown>>,
     <<CallBad("editFile"), CallRead(PathNotes)>>,
     <<CallBad("writeFile")>>,
     <<CallBad("readFile")>>,
     <<CallBad("list")>>,
     <<CallBad("searchInDirectory")>>}

ToolCall(id, c) == [ID |-> id, Name |-> c.Name, Arguments |-> c.Arguments]

RECURSIVE CountRegistered(_)
CountRegistered(cs) ==
    IF cs = <<>> THEN 0
    ELSE (IF Head(cs).Name \in GetAvailableTools THEN 1 ELSE 0) + CountRegistered(Tail(cs))

(***************************************************************************)
(* JSON text.  A text is a sequence whose elements are single characters   *)
(* or runs of ordinary characters (letters, digits, spaces inside a        *)
(* message); the characters with a meaning in JSON are always single.      *)
(***************************************************************************)
\* the encoding of a string by json.Marshal: quotes, with ", \ and the
\* control characters escaped
RECURSIVE Escape(_)
Escape(s) ==
    IF s = <<>> THEN <<>>
    ELSE (CASE Head(s) = "\"" -> <<"\\", "\"">>
            [] Head(s) = "\\" -> <<"\\", "\\">>
            [] Head(s) = "\n" -> <<"\\", "n">>
            [] Head(s) = "\r" -> <<"\\", "r">>
            [] Head(s) = "\t" -> <<"\\", "t">>
            [] OTHER -> <<Head(s)>>) \o Escape(Tail(s))
Quote(s) == <<"\"">> \o Escape(s) \o <<"\"">>

RECURSIVE QuoteAll(_)
QuoteAll(ps) ==
    IF ps = <<>> THEN <<>>
    ELSE Quote(PathString(Head(ps)))
         \o (IF Len(ps) > 1 THEN <<",">> ELSE <<>>) \o QuoteAll(Tail(ps))

\* json.Marshal of a tool result
Marshal(res) ==
    <<"{">> \o Quote(<<"success">>) \o <<":", IF res.success THEN "true" ELSE "false", ",">>
    \o Quote(<<"error">>) \o <<":">> \o Quote(IF res.error = "" THEN <<>> ELSE <<res.error>>)
    \o <<",">> \o Quote(<<"content">>) \o <<":">> \o Quote(res.content)
    \o <<",">> \o Quote(<<"files">>) \o <<":", "[">> \o QuoteAll(res.files) \o <<"]", "}">>

\* the JSON grammar: each Parse operator takes the text and the position it
\* starts at and returns the position after what it parsed, 0 when the text
\* is not well-formed there
RECURSIVE SkipSpace(_, _)
SkipSpace(t, i) ==
    IF i <= Len(t) /\ t[i] \in {" ", "\n", "\r", "\t"} THEN SkipSpace(t, i + 1) ELSE i

\* after the opening quote of a string
RECURSIVE ParseString(_, _)
ParseString(t, i) ==
    IF i > Len(t) THEN 0
    ELSE IF t[i] = "\"" THEN i + 1
    ELSE IF t[i] = "\\"
    THEN IF i + 1 <= Len(t) /\ t[i + 1] \in {"\"", "\\", "/", "b", "f", "n", "r", "t"}
         THEN ParseString(t, i + 2)
         ELSE 0
    ELSE IF t[i] \in {"\n", "\r", "\t"} THEN 0
    ELSE ParseString(t, i + 1)

RECURSIVE ParseValue(_, _)
RECURSIVE ParseMembers(_, _)
RECURSIVE ParseElements(_, _)
ParseValue(t, i) ==
    IF i = 0 \/ i > Len(t) THEN 0
    ELSE IF t[i] = "\"" THEN ParseString(t, i + 1)
    ELSE IF t[i] \in {"true", "false", "null"} THEN i + 1
    ELSE IF t[i] = "{"
    THEN LET j == SkipSpace(t, i + 1)
         IN IF j <= Len(t) /\ t[j] = "}" THEN j + 1 ELSE ParseMembers(t, j)
    ELSE IF t[i] = "["
    THEN LET j == SkipSpace(t, i + 1)
         IN IF j <= Len(t) /\ t[j] = "]" THEN j + 1 ELSE ParseElements(t, j)
    ELSE 0

\* the members of an object from position i on, up to the closing brace
ParseMembers(t, i) ==
    IF i = 0 \/ i > Len(t) \/ t[i] # "\"" THEN 0
    ELSE LET k == SkipSpace(t, ParseString(t, i + 1))
         IN IF ParseString(t, i + 1) = 0 \/ k > Len(t) \/ t[k] # ":" THEN 0
            ELSE LET v == ParseValue(t, SkipSpace(t, k + 1))
                     e == SkipSpace(t, v)
                 IN IF v = 0 \/ e > Len(t) THEN 0
                    ELSE IF t[e] = "}" THEN e + 1
                    ELSE IF t[e] = "," THEN ParseMembers(t, SkipSpace(t, e + 1))
                    ELSE 0

\* the elements of an array from position i on, up to the closing bracket
ParseElements(t, i) ==
    LET v == ParseValue(t, i)
        e == SkipSpace(t, v)
    IN IF v = 0 \/ e > Len(t) THEN 0
       ELSE IF t[e] = "]" THEN e + 1
       ELSE IF t[e] = "," THEN ParseElements(t, SkipSpace(t, e + 1))
       ELSE 0

\* the whole text is one JSON value
WellFormedJSON(t) ==
    LET e == ParseValue(t, SkipSpace(t, 1))
    IN e # 0 /\ SkipSpace(t, e) = Len(t) + 1

(***************************************************************************)
(* Messages.                                                               *)
(***************************************************************************)
Message(role, text, result, toolCalls, toolCallID) ==
    [Role |-> role, Content |-> text, Result |-> result,
     ToolCalls |-> toolCalls, ToolCallID |-> toolCallID]

SystemMessage == Message("system", <<"p">>, NoResult, <<>>, 0)
UserMessage(text) == Message("user", text, NoResult, <<>>, 0)
AssistantMessage(toolCalls) == Message("assistant", <<>>, NoResult, toolCalls, 0)
\* a tool message: its content is the JSON text of the result
ToolMessage(result, id) == Message("tool", Marshal(result), result, <<>>, id)

\* the tool message built without the id of the call
ToolResultMessageNoID(toolCall, result) == ToolMessage(result, 0)
\* the message handleUserInput appends for an executed tool call
ToolResultMessage(toolCall, result) == ToolMessage(result, toolCall.ID)

\* the Go error of a tool: fmt.Errorf("<parse failure>: %v", err)
GoErrorText(args) == <<"failed to parse arguments: ">> \o args.decodeError

\* fmt.Sprintf(`{"error": "Tool execution failed: %v"}`, err): the text, and
\* the result it stands for
ErrToolFailed == "Tool execution failed"
ErrorPayload(e) == genErrorResult(ErrToolFailed)
ErrorPayloadText(errText) ==
    <<"{", "\"", "error", "\"", ":", " ", "\"", "Tool execution failed: ">>
    \o errText \o <<"\"", "}">>

(***************************************************************************)
(* The conversation store.  The messages table and the Message record are  *)
(* those of memory/database.go and memory/models.go; the operations on     *)
(* them, saveMessage, getSessionMessages and the restore of a session, are *)
(* the ones section 4.5 of the specification describes.                    *)
(***************************************************************************)
\* a row of the messages table
Row(id, sessionId, timestamp, role, content, toolCalls, toolResults) ==
    [ID |-> id, SessionID |-> sessionId, Timestamp |-> timestamp, Role |-> role,
     Content |-> content, ToolCalls |-> toolCalls, ToolResults |-> toolResults]

\* the table initTables creates
EmptyTable == {}

\* an id that counts down
NextIDDescending(rows) == 0 - Cardinality(rows)
\* id INTEGER PRIMARY KEY AUTOINCREMENT: larger than every id in the table
NextID(rows) ==
    IF rows = {} THEN 1
    ELSE 1 + (CHOOSE n \in {r.ID : r \in rows} : \A r \in rows : r.ID <= n)

\* saveMessage(sessionId, role, content, toolCalls?, toolResult?) at time now
saveMessage(rows, sessionId, now, role, content, toolCalls, toolResult) ==
    rows \cup {Row(NextID(rows), sessionId, now, role, content, toolCalls, toolResult)}

\* creation time, then insertion order
RowBefore(r, q) ==
    r.Timestamp < q.Timestamp \/ (r.Timestamp = q.Timestamp /\ r.ID < q.ID)

RECURSIVE SortRows(_)
SortRows(rows) ==
    IF rows = {} THEN <<>>
    ELSE LET first == CHOOSE r \in rows : \A q \in rows \ {r} : RowBefore(r, q)
         IN <<first>> \o SortRows(rows \ {first})

\* getSessionMessages(id): the messages of the session, in order
getSessionMessages(rows, sessionId) ==
    SortRows({r \in rows : r.SessionID = sessionId})

\* the history a resumed session starts from: user and assistant contents
IsReplayed(m) == m.Role \in {"user", "assistant"}
RECURSIVE Replay(_)
Replay(ms) ==
    IF ms = <<>> THEN <<>>
    ELSE (IF IsReplayed(Head(ms))
          THEN <<[Role |-> Head(ms).Role, Content |-> Head(ms).Content]>>
          ELSE <<>>) \o Replay(Tail(ms))
restoreSession(rows, sessionId) == Replay(getSessionMessages(rows, sessionId))

\* the sessions, and the messages handed to saveMessage
Sessions == {"S", "T"}
StoreRoles == {"user", "assistant", "tool"}
StoreContents == {<<"h", "i">>, <<"o", "k">>}

(***************************************************************************)
(* State.                                                                  *)
(***************************************************************************)
VARIABLES
    scanText,    \* scanner.Text(): the line main read last
    messages,    \* the conversation history of main
    pc,          \* "prompt": main waits for a line; "model": handleUserInput
                 \* is about to call the model; "tools": it dispatches the
                 \* tool calls of a reply; "exited": main has returned
    step,        \* the loop counter of handleUserInput
    pending,     \* responseMessage.ToolCalls of the current step
    idx,         \* position of the range loop in pending
    err,         \* the error the last handleUserInput returned
    turnCalls,   \* model calls made in the current turn
    turns,       \* calls of handleUserInput so far
    fs,          \* the file tree
    nread,       \* lines standard input has delivered
    eof,         \* standard input has reported end of file
    scanBuf,     \* lines the scanner of main has read and not yet returned
    modelCalls,  \* model calls answered in this run
    toolRuns,    \* registered-tool calls requested in this run
    last,        \* the most recent tool call of the dispatch loop
    table,       \* the rows of the messages table
    clock,       \* the time CURRENT_TIMESTAMP reads
    sent,        \* per session, the messages handed to saveMessage, in order
    restored     \* the last restore: its session, its history, sent at that time

vars == <<scanText, messages, pc, step, pending, idx, err, turnCalls, turns, fs, nread, eof,
          scanBuf, modelCalls, toolRuns, last, table, clock, sent, restored>>

NoRestore == [done |-> FALSE, session |-> "", history |-> <<>>, sentThen |-> <<>>]

\* main and handleUserInput make no call to the store
StoreUntouched == UNCHANGED <<table, clock, sent, restored>>

NoCall == [ID |-> 0, Name |-> "", Arguments |-> BadArgs]
NoLast ==
    [call |-> NoCall, ran |-> FALSE, before |-> EmptyTree, resp |-> NoLine,
     io |-> NoFault, ret |-> Ret(NoResult, "nil", EmptyTree, FALSE, <<>>),
     nreadBefore |-> 0, lineNo |-> 0, msgsBefore |-> 0, seq |-> 0,
     after |-> EmptyTree, nreadAfter |-> 0, msgsAfter |-> 0]

InitWith(trees) ==
    /\ messages = <<SystemMessage>>
    /\ pc = "prompt"
    /\ step = 0
    /\ pending = <<>>
    /\ idx = 0
    /\ err = "nil"
    /\ turnCalls = 0
    /\ turns = 0
    /\ fs \in trees
    /\ nread = 0
    /\ eof = FALSE
    /\ scanBuf = <<>>
    /\ scanText = <<>>
    /\ modelCalls = 0
    /\ toolRuns = 0
    /\ last = NoLast
    /\ table = EmptyTable
    /\ clock = 0
    /\ sent = [s \in Sessions |-> <<>>]
    /\ restored = NoRestore

Init == InitWith(LoopTrees)

(***************************************************************************)
(* main: one pass of the read loop, up to the call of handleUserInput and  *)
(* the append of the user message.                                         *)
(***************************************************************************)
\* the loop test with <= in place of <
LoopTestOffByOne(st) == st <= maxToolCallSteps
\* the test of the step loop: step < maxToolCallSteps
LoopTest(st) == st < maxToolCallSteps

\* main comparing and keeping the line as typed, without strings.TrimSpace
HandleLineNoTrim(text) ==
    LET userInput == text
    IN /\ scanText' = text
       /\ IF userInput = StrExit \/ userInput = StrQuit
          THEN /\ pc' = "exited"
               /\ UNCHANGED <<messages, step, err, turnCalls, turns>>
          ELSE IF userInput = <<>>
          THEN UNCHANGED <<pc, messages, step, err, turnCalls, turns>>
          ELSE /\ messages' = Append(messages, UserMessage(userInput))
               /\ step' = 0
               /\ turnCalls' = 0
               /\ turns' = turns + 1
               /\ IF LoopTest(0)
                  THEN err' = "running" /\ pc' = "model"
                  ELSE err' = "budget" /\ pc' = "prompt"

\* main passing the step counter of the previous turn on to the next one
HandleLineKeepsStep(text) ==
    LET userInput == TrimSpace(text)
    IN /\ scanText' = text
       /\ IF userInput = StrExit \/ userInput = StrQuit
          THEN /\ pc' = "exited"
               /\ UNCHANGED <<messages, step, err, turnCalls, turns>>
          ELSE IF userInput = <<>>
          THEN UNCHANGED <<pc, messages, step, err, turnCalls, turns>>
          ELSE /\ messages' = Append(messages, UserMessage(userInput))
               /\ step' = step
               /\ turnCalls' = 0
               /\ turns' = turns + 1
               /\ IF LoopTest(step)
                  THEN err' = "running" /\ pc' = "model"
                  ELSE err' = "budget" /\ pc' = "prompt"

\* what main does with the line the scanner returned
HandleLine(text) ==
    LET userInput == TrimSpace(text)
    IN /\ scanText' = text
       /\ IF userInput = StrExit \/ userInput = StrQuit
          THEN /\ pc' = "exited"
               /\ UNCHANGED <<messages, step, err, turnCalls, turns>>
          ELSE IF userInput = <<>>
          THEN UNCHANGED <<pc, messages, step, err, turnCalls, turns>>
          ELSE /\ messages' = Append(messages, UserMessage(userInput))
               /\ step' = 0
               /\ turnCalls' = 0
               /\ turns' = turns + 1
               /\ IF LoopTest(0)
                  THEN err' = "running" /\ pc' = "model"
                  ELSE err' = "budget" /\ pc' = "prompt"

\* scanner.Scan returns a line buffered earlier
ReadBuffered ==
    /\ StoreUntouched
    /\ pc = "prompt"
    /\ scanBuf # <<>>
    /\ scanBuf' = Tail(scanBuf)
    /\ HandleLine(Head(scanBuf).text)
    /\ UNCHANGED <<pending, idx, fs, nread, eof, modelCalls, toolRuns, last>>

\* scanner.Scan reads k lines from standard input and returns the first
ReadInput(W) ==
    /\ StoreUntouched
    /\ pc = "prompt"
    /\ scanBuf = <<>>
    /\ ~eof
    /\ nread < W.maxLines
    /\ \E k \in 1..Min(W.maxAhead, W.maxLines - nread) :
         \E ls \in [1..k -> W.userLines] :
            /\ nread' = nread + k
            /\ scanBuf' = [i \in 1..(k - 1) |-> [n |-> nread + i + 1, text |-> ls[i + 1]]]
            /\ HandleLine(ls[1])
    /\ UNCHANGED <<pending, idx, fs, eof, modelCalls, toolRuns, last>>

\* scanner.Scan returns false: end of input
ReadEOF ==
    /\ StoreUntouched
    /\ pc = "prompt"
    /\ scanBuf = <<>>
    /\ eof' = TRUE
    /\ pc' = "exited"
    /\ UNCHANGED <<scanText, messages, step, pending, idx, err, turnCalls, turns, fs, nread,
                   scanBuf, modelCalls, toolRuns, last>>

(***************************************************************************)
(* handleUserInput: one model call of the step loop.                       *)
(***************************************************************************)
\* the tool-call lists a reply may carry at this point of the run
ReplyCalls(W) ==
    {cs \in W.replies : toolRuns + CountRegistered(cs) <= W.maxRuns}

\* main ending the program when handleUserInput returns an error
ReturnErrorExits(e) ==
    /\ err' = e
    /\ pc' = "exited"

ReturnError(e) ==
    /\ err' = e
    /\ pc' = "prompt"

\* the failed model call that hands back a fresh history
ModelFailsLosesHistory(W) ==
    /\ StoreUntouched
    /\ pc = "model"
    /\ turnCalls' = turnCalls + 1
    /\ modelCalls' = Min(modelCalls + 1, W.maxCalls)
    /\ ReturnError("api")
    /\ messages' = <<SystemMessage>>
    /\ UNCHANGED <<scanText, step, pending, idx, turns, fs, nread, eof, scanBuf, toolRuns, last>>

\* main keeping the history it had before the turn when the turn fails
ModelFailsDropsTurn(W) ==
    /\ StoreUntouched
    /\ pc = "model"
    /\ turnCalls' = turnCalls + 1
    /\ modelCalls' = Min(modelCalls + 1, W.maxCalls)
    /\ ReturnError("api")
    /\ LET start == CHOOSE i \in 1..Len(messages) :
                        /\ messages[i].Role = "user"
                        /\ \A j \in (i + 1)..Len(messages) : messages[j].Role # "user"
       IN messages' = SubSeq(messages, 1, start - 1)
    /\ UNCHANGED <<scanText, step, pending, idx, turns, fs, nread, eof, scanBuf,
                   toolRuns, last>>

\* client.CreateChatCompletion returns an error
ModelFails(W) ==
    /\ StoreUntouched
    /\ pc = "model"
    /\ turnCalls' = turnCalls + 1
    /\ modelCalls' = Min(modelCalls + 1, W.maxCalls)
    /\ ReturnError("api")
    /\ UNCHANGED <<scanText, messages, step, pending, idx, turns, fs, nread, eof, scanBuf,
                   toolRuns, last>>

\* the response has no choices
ModelNoChoices(W) ==
    /\ StoreUntouched
    /\ pc = "model"
    /\ modelCalls < W.maxCalls
    /\ turnCalls' = turnCalls + 1
    /\ modelCalls' = modelCalls + 1
    /\ ReturnError("nochoices")
    /\ UNCHANGED <<scanText, messages, step, pending, idx, turns, fs, nread, eof, scanBuf,
                   toolRuns, last>>

\* the step loop that does not return on a reply without tool calls
ModelRepliesNeverFinal(W) ==
    /\ StoreUntouched
    /\ pc = "model"
    /\ modelCalls < W.maxCalls
    /\ turnCalls' = turnCalls + 1
    /\ modelCalls' = modelCalls + 1
    /\ \E cs \in ReplyCalls(W) :
         LET toolCalls == [i \in 1..Len(cs) |-> ToolCall(10 * (modelCalls + 1) + i, cs[i])]
         IN /\ messages' = Append(messages, AssistantMessage(toolCalls))
            /\ toolRuns' = toolRuns + CountRegistered(cs)
            /\ IF Len(toolCalls) = 0
               THEN UNCHANGED <<pc, err, pending, idx>>
               ELSE /\ pending' = toolCalls
                    /\ idx' = 1
                    /\ pc' = "tools"
                    /\ UNCHANGED err
    /\ UNCHANGED <<scanText, step, turns, fs, nread, eof, scanBuf, last>>

\* the step loop that tests the budget before it runs the tool calls of a
\* reply: the calls of the last budgeted reply are not run
ModelRepliesSkipsLastTools(W) ==
    /\ StoreUntouched
    /\ pc = "model"
    /\ modelCalls < W.maxCalls
    /\ turnCalls' = turnCalls + 1
    /\ modelCalls' = modelCalls + 1
    /\ \E cs \in ReplyCalls(W) :
         LET toolCalls == [i \in 1..Len(cs) |-> ToolCall(10 * (modelCalls + 1) + i, cs[i])]
         IN /\ messages' = Append(messages, AssistantMessage(toolCalls))
            /\ toolRuns' = toolRuns + CountRegistered(cs)
            /\ IF Len(toolCalls) = 0
               THEN /\ err' = "nil"
                    /\ pc' = "prompt"
                    /\ UNCHANGED <<pending, idx>>
               ELSE IF ~LoopTest(step + 1)
               THEN /\ ReturnError("budget")
                    /\ UNCHANGED <<pending, idx>>
               ELSE /\ pending' = toolCalls
                    /\ idx' = 1
                    /\ pc' = "tools"
                    /\ UNCHANGED err
    /\ UNCHANGED <<scanText, step, turns, fs, nread, eof, scanBuf, last>>

\* the response carries a message
ModelReplies(W) ==
    /\ StoreUntouched
    /\ pc = "model"
    /\ modelCalls < W.maxCalls
    /\ turnCalls' = turnCalls + 1
    /\ modelCalls' = modelCalls + 1
    /\ \E cs \in ReplyCalls(W) :
         LET toolCalls == [i \in 1..Len(cs) |-> ToolCall(10 * (modelCalls + 1) + i, cs[i])]
         IN /\ messages' = Append(messages, AssistantMessage(toolCalls))
            /\ toolRuns' = toolRuns + CountRegistered(cs)
            /\ IF Len(toolCalls) = 0
               THEN /\ err' = "nil"
                    /\ pc' = "prompt"
                    /\ UNCHANGED <<pending, idx>>
               ELSE /\ pending' = toolCalls
                    /\ idx' = 1
                    /\ pc' = "tools"
                    /\ UNCHANGED err
    /\ UNCHANGED <<scanText, step, turns, fs, nread, eof, scanBuf, last>>

(***************************************************************************)
(* handleUserInput: one pass of the range loop over the tool calls, and    *)
(* after the last one the step increment and the loop test.                *)
(***************************************************************************)
\* after the range loop: step++, then the next model call or the final return
AfterCall ==
    /\ idx' = idx + 1
    /\ IF idx < Len(pending)
       THEN UNCHANGED <<step, pc, err>>
       ELSE /\ step' = step + 1
            /\ IF LoopTest(step + 1)
               THEN /\ pc' = "model"
                    /\ UNCHANGED err
               ELSE ReturnError("budget")

\* an unknown tool name answered with an error message for the call id
DispatchUnknownEmitsError ==
    /\ StoreUntouched
    /\ pc = "tools"
    /\ idx <= Len(pending)
    /\ ~(pending[idx].Name \in GetAvailableTools)
    /\ messages' = Append(messages, ToolMessage(genErrorResult("unknown tool"), pending[idx].ID))
    /\ UNCHANGED <<scanText, pending, turnCalls, turns, fs, nread, eof, scanBuf, modelCalls, toolRuns>>
    /\ last' = [NoLast EXCEPT !.call = pending[idx], !.before = fs, !.nreadBefore = nread,
                              !.ret = Ret(NoResult, "nil", fs, FALSE, <<>>),
                              !.msgsBefore = Len(messages), !.seq = idx,
                              !.after = fs', !.nreadAfter = nread',
                              !.msgsAfter = Len(messages')]
    /\ AfterCall

\* the tool call names no registered tool: nothing is executed or appended
DispatchUnknown ==
    /\ StoreUntouched
    /\ pc = "tools"
    /\ idx <= Len(pending)
    /\ ~(pending[idx].Name \in GetAvailableTools)
    /\ UNCHANGED <<scanText, messages, pending, turnCalls, turns, fs, nread, eof, scanBuf,
                   modelCalls, toolRuns>>
    /\ last' = [NoLast EXCEPT !.call = pending[idx], !.before = fs, !.nreadBefore = nread,
                              !.ret = Ret(NoResult, "nil", fs, FALSE, <<>>),
                              !.msgsBefore = Len(messages), !.seq = idx,
                              !.after = fs', !.nreadAfter = nread',
                              !.msgsAfter = Len(messages')]
    /\ AfterCall

\* the tool reached a file system call that io decides
UsesIO(steps) ==
    \E i \in 1..Len(steps) :
        steps[i] \in {"mkdir", "create", "write", "walk", "readdir"}

\* the Go error of a tool dropped: no tool message is appended for the call
RunToolDropsGoError(resp, k, io) ==
    LET toolCall == pending[idx]
    IN \E r \in {ToolFunction(toolCall.Name, toolCall.Arguments, fs, resp, io)} :
       /\ messages' = IF r.err # "nil" THEN messages
                      ELSE Append(messages, ToolMessage(r.result, toolCall.ID))
       /\ fs' = r.fs
       /\ nread' = IF r.prompted /\ resp.ok THEN nread + k ELSE nread
       /\ eof' = (eof \/ (r.prompted /\ ~resp.ok))
       /\ last' = [call |-> toolCall, ran |-> TRUE, before |-> fs,
                   resp |-> IF r.prompted THEN resp ELSE NoLine,
                   io |-> IF UsesIO(r.steps) THEN io ELSE NoFault,
                   ret |-> r, nreadBefore |-> nread,
                   lineNo |-> IF r.prompted /\ resp.ok THEN nread + 1 ELSE 0,
                   msgsBefore |-> Len(messages), seq |-> idx,
                   after |-> fs', nreadAfter |-> nread',
                   msgsAfter |-> Len(messages')]

\* the tool run on a copy of the tree: its effects are not there afterwards
RunToolDiscardsEffects(resp, k, io) ==
    LET toolCall == pending[idx]
    IN \E r \in {ToolFunction(toolCall.Name, toolCall.Arguments, fs, resp, io)} :
       LET result == IF r.err # "nil" THEN ErrorPayload(r.err) ELSE r.result
       IN /\ messages' = Append(messages, ToolResultMessage(toolCall, result))
          /\ fs' = fs
          /\ nread' = IF r.prompted /\ resp.ok THEN nread + k ELSE nread
          /\ eof' = (eof \/ (r.prompted /\ ~resp.ok))
          /\ last' = [call |-> toolCall, ran |-> TRUE, before |-> fs,
                      resp |-> IF r.prompted THEN resp ELSE NoLine,
                      io |-> IF UsesIO(r.steps) THEN io ELSE NoFault,
                      ret |-> r, nreadBefore |-> nread,
                      lineNo |-> IF r.prompted /\ resp.ok THEN nread + 1 ELSE 0,
                      msgsBefore |-> Len(messages), seq |-> idx,
                      after |-> fs', nreadAfter |-> nread',
                      msgsAfter |-> Len(messages')]

\* the tool runs with the response resp of its scanner, of which the read
\* took k lines from standard input, and the file system outcome io
RunTool(resp, k, io) ==
    LET toolCall == pending[idx]
    IN \E r \in {ToolFunction(toolCall.Name, toolCall.Arguments, fs, resp, io)} :
       LET result == IF r.err # "nil" THEN ErrorPayload(r.err) ELSE r.result
           content == IF r.err # "nil"
                      THEN ErrorPayloadText(GoErrorText(toolCall.Arguments))
                      ELSE Marshal(r.result)
       IN /\ messages' = Append(messages,
                 [ToolResultMessage(toolCall, result) EXCEPT !.Content = content])
          /\ fs' = r.fs
          /\ nread' = IF r.prompted /\ resp.ok THEN nread + k ELSE nread
          /\ eof' = (eof \/ (r.prompted /\ ~resp.ok))
          /\ last' = [call |-> toolCall, ran |-> TRUE, before |-> fs,
                      resp |-> IF r.prompted THEN resp ELSE NoLine,
                      io |-> IF UsesIO(r.steps) THEN io ELSE NoFault,
                      ret |-> r, nreadBefore |-> nread,
                      lineNo |-> IF r.prompted /\ resp.ok THEN nread + 1 ELSE 0,
                      msgsBefore |-> Len(messages), seq |-> idx,
                      after |-> fs', nreadAfter |-> nread',
                      msgsAfter |-> Len(messages')]

DispatchTool(W) ==
    /\ StoreUntouched
    /\ pc = "tools"
    /\ idx <= Len(pending)
    /\ pending[idx].Name \in GetAvailableTools
    /\ \E io \in W.ios :
         \/ /\ ~eof
            /\ nread < W.maxLines
            /\ \E k \in 1..Min(W.maxAhead, W.maxLines - nread) :
                 \E t \in W.gateLines : RunTool(Line(t), k, io)
         \/ RunTool(NoLine, 0, io)
    /\ AfterCall
    /\ UNCHANGED <<scanText, pending, turnCalls, turns, scanBuf, modelCalls, toolRuns>>

\* the runs that exercise the turn loop: few kinds of tool calls, long turns
Loop ==
    [userLines |-> LoopUserLines, gateLines |-> LoopGateLines, ios |-> LoopIOOutcomes,
     replies |-> LoopReplies, maxCalls |-> MaxModelCalls, maxRuns |-> MaxToolRuns,
     maxLines |-> MaxLines, maxAhead |-> MaxReadAhead]

Next ==
    \/ ReadBuffered
    \/ ReadInput(Loop)
    \/ ReadEOF
    \/ ModelFails(Loop)
    \/ ModelNoChoices(Loop)
    \/ ModelReplies(Loop)
    \/ DispatchUnknown
    \/ DispatchTool(Loop)

Spec == Init /\ [][Next]_vars

\* the runs that exercise the file tools: every tool and gate line, short turns
Files ==
    [userLines |-> FileUserLines, gateLines |-> GateLines, ios |-> IOOutcomes,
     replies |-> FileReplies, maxCalls |-> MaxFileModelCalls, maxRuns |-> MaxFileToolRuns,
     maxLines |-> MaxFileLines, maxAhead |-> MaxReadAhead]

NextFiles ==
    \/ ReadBuffered
    \/ ReadInput(Files)
    \/ ReadEOF
    \/ ModelFails(Files)
    \/ ModelNoChoices(Files)
    \/ ModelReplies(Files)
    \/ DispatchUnknown
    \/ DispatchTool(Files)

SpecFiles == InitWith(InitTrees) /\ [][NextFiles]_vars

\* the runs that follow the turns to their end: replies with and without a
\* tool call, tools that need no confirmation
Turns ==
    [userLines |-> {<<"h", "i">>, StrExit}, gateLines |-> {StrY}, ios |-> {NoFault},
     replies |-> {<<>>, <<CallUnknown>>, <<CallRead(PathNotes)>>},
     maxCalls |-> MaxModelCalls, maxRuns |-> MaxToolRuns,
     maxLines |-> MaxLines, maxAhead |-> MaxReadAhead]

\* the steps of handleUserInput: the model call and the dispatch of a tool
\* call return
TurnNext ==
    \/ ModelFails(Turns)
    \/ ModelNoChoices(Turns)
    \/ ModelReplies(Turns)
    \/ DispatchUnknown
    \/ DispatchTool(Turns)

NextTurns ==
    \/ ReadBuffered
    \/ ReadInput(Turns)
    \/ ReadEOF
    \/ ModelFails(Turns)
    \/ ModelNoChoices(Turns)
    \/ ModelReplies(Turns)
    \/ DispatchUnknown
    \/ DispatchTool(Turns)

\* the turn loop under the assumption that every call made in a turn returns
FairSpec == Init /\ [][NextTurns]_vars /\ WF_vars(TurnNext)

(***************************************************************************)
(* The store on its own: messages are saved for the sessions as time       *)
(* passes, and a session is restored.                                      *)
(***************************************************************************)
\* the store runs without the chat loop
LoopUntouched ==
    UNCHANGED <<scanText, messages, pc, step, pending, idx, err, turnCalls, turns, fs, nread,
                eof, scanBuf, modelCalls, toolRuns, last>>

SaveMessage ==
    /\ LoopUntouched
    /\ Cardinality(table) < MaxRows
    /\ \E s \in Sessions, role \in StoreRoles, c \in StoreContents :
         /\ table' = saveMessage(table, s, clock, role, c, <<>>, <<>>)
         /\ sent' = [sent EXCEPT ![s] = Append(@, [Role |-> role, Content |-> c])]
    /\ UNCHANGED <<clock, restored>>

Tick ==
    /\ LoopUntouched
    /\ clock < MaxClock
    /\ clock' = clock + 1
    /\ UNCHANGED <<table, sent, restored>>

\* a session is restored once, when the program starts with the resume flag
RestoreSession ==
    /\ LoopUntouched
    /\ ~restored.done
    /\ \E s \in Sessions :
         restored' = [done |-> TRUE, session |-> s,
                      history |-> restoreSession(table, s), sentThen |-> sent[s]]
    /\ UNCHANGED <<table, clock, sent>>

NextStore ==
    \/ SaveMessage
    \/ Tick
    \/ RestoreSession

SpecStore == InitWith({EmptyTree}) /\ [][NextStore]_vars

(***************************************************************************)
(* The walking tools on their own: searchInDirectory and list are applied  *)
(* to the trees over the path universe.                                    *)
(***************************************************************************)
\* the trees whose files hold contents with and without the keyword, and with
\* a line that is too long for the scanner before or on the line of the keyword
WalkTrees ==
    LET contents == {<<"a">>, <<"b">>, <<"b", "\n", "a">>,
                     <<LongRun, "a">>, <<LongRun, "\n", "a">>}
    IN {f \in [AllPaths -> {NoEntry, DirEntry} \cup {FileEntry(c) : c \in contents}] :
           WellFormedFS(f)}

WalkIOOutcomes ==
    {NoFault, [fault |-> "readdir", n |-> 0], [fault |-> "readdir", n |-> 1],
     [fault |-> "open", n |-> 0], [fault |-> "open", n |-> 1]}

\* the tool of the call is applied to the tree; resp is what its scanner reads
ApplyTool(toolCall, resp, io) ==
    /\ StoreUntouched
    /\ \E r \in {ToolFunction(toolCall.Name, toolCall.Arguments, fs, resp, io)} :
         /\ fs' = r.fs
         /\ last' = [call |-> toolCall, ran |-> TRUE, before |-> fs,
                     resp |-> IF r.prompted THEN resp ELSE NoLine,
                     io |-> io, ret |-> r, nreadBefore |-> nread, lineNo |-> 0,
                     msgsBefore |-> Len(messages), seq |-> 1, after |-> fs',
                     nreadAfter |-> nread, msgsAfter |-> Len(messages)]
    /\ UNCHANGED <<scanText, messages, pc, step, pending, idx, err, turnCalls, turns,
                   nread, eof, scanBuf, modelCalls, toolRuns>>

\* a search for the keyword "a" from the root or from a directory
SearchCall ==
    \E p \in {<<>>, PathDir},
       ex \in {<<>>, <<PathString(PathDir)>>, <<<<"d", "/", "b">>>>, <<<<"n", "o">>>>},
       io \in WalkIOOutcomes :
        ApplyTool(ToolCall(1, CallSearch(p, <<"a">>, ex)), NoLine, io)

ListCall ==
    \E p \in {<<>>, PathDir, PathNotes}, r \in BOOLEAN, io \in WalkIOOutcomes :
        ApplyTool(ToolCall(1, CallList(p, r)), NoLine, io)

NextWalk ==
    \/ SearchCall
    \/ ListCall

SpecWalk == InitWith(WalkTrees) /\ [][NextWalk]_vars

(***************************************************************************)
(* editFile on its own: a file with any short text is edited to any short  *)
(* text, and the operator approves, declines or gives no answer.           *)
(***************************************************************************)
\* the texts of at most n characters over two letters and the line break
RECURSIVE TextsUpTo(_)
TextsUpTo(n) ==
    IF n = 0 THEN {<<>>}
    ELSE LET shorter == TextsUpTo(n - 1)
         IN shorter \cup {Append(t, c) : t \in shorter, c \in {"a", "b", "\n"}}

\* the trees that hold one file with a short text
EditTrees == {[EmptyTree EXCEPT ![PathNotes] = FileEntry(t)] : t \in TextsUpTo(MaxTextLen)}

\* one edit of the file the run starts with
EditCall ==
    /\ ~last.ran
    /\ \E t \in TextsUpTo(MaxTextLen), resp \in {NoLine, Line(StrY), Line(<<"n">>)} :
         ApplyTool(ToolCall(1, CallEdit(PathNotes, t)), resp, NoFault)

SpecEdit == InitWith(EditTrees) /\ [][EditCall]_vars

TypeOK ==
    /\ pc \in {"prompt", "model", "tools", "exited"}
    /\ step \in 0..maxToolCallSteps
    /\ WellFormedFS(fs)


(***************************************************************************)
(* Reading the history.                                                    *)
(***************************************************************************)
IsToolReply(m) == m.Role = "assistant" /\ Len(m.ToolCalls) > 0

\* index of the last user message, the start of the current turn
LastUserIdx ==
    IF \E i \in 1..Len(messages) : messages[i].Role = "user"
    THEN CHOOSE i \in 1..Len(messages) :
            /\ messages[i].Role = "user"
            /\ \A j \in (i + 1)..Len(messages) : messages[j].Role # "user"
    ELSE 0

\* replies with tool calls received in the current turn
NumToolReplies ==
    Cardinality({i \in (LastUserIdx + 1)..Len(messages) : IsToolReply(messages[i])})

\* nearest message before j that is not a tool message
PrevNonTool(j) ==
    CHOOSE i \in 1..(j - 1) :
        /\ messages[i].Role # "tool"
        /\ \A k \in (i + 1)..(j - 1) : messages[k].Role = "tool"

\* the ids of the tool messages that directly follow message i
RECURSIVE ToolRunIDs(_)
ToolRunIDs(i) ==
    IF i + 1 <= Len(messages) /\ messages[i + 1].Role = "tool"
    THEN <<messages[i + 1].ToolCallID>> \o ToolRunIDs(i + 1)
    ELSE <<>>

RECURSIVE CallIDs(_)
CallIDs(cs) == IF cs = <<>> THEN <<>> ELSE <<Head(cs).ID>> \o CallIDs(Tail(cs))

RECURSIVE RegisteredCallIDs(_)
RegisteredCallIDs(cs) ==
    IF cs = <<>> THEN <<>>
    ELSE (IF Head(cs).Name \in ToolNames THEN <<Head(cs).ID>> ELSE <<>>)
         \o RegisteredCallIDs(Tail(cs))

\* the range loop over the tool calls of message i has finished
DispatchDone(i) ==
    ~(pc = "tools" /\ \A j \in (i + 1)..Len(messages) : messages[j].Role = "tool")

(***************************************************************************)
(* C1: in a turn in which every model reply carries a tool call, the model *)
(* is called exactly maxToolCallSteps = 5 times, the turn then returns the *)
(* step budget error, and there is no sixth call.                          *)
(***************************************************************************)
C1_StepBudget ==
    /\ turnCalls <= 5
    /\ (turns > 0 /\ NumToolReplies = turnCalls) =>
          IF err = "running"
          THEN turnCalls < 5 \/ pc = "tools"
          ELSE err = "budget" /\ turnCalls = 5

C1_Witness == err = "budget" /\ turnCalls = 5 /\ NumToolReplies = 5

(***************************************************************************)
(* C2: once the tool calls c1..cn of an assistant message are dispatched,  *)
(* the tool messages that follow it are exactly n, with the ids of c1..cn  *)
(* in order, whatever the tool names.                                      *)
(***************************************************************************)
C2_OneResultPerCall ==
    \A i \in 1..Len(messages) :
        (IsToolReply(messages[i]) /\ DispatchDone(i)) =>
            ToolRunIDs(i) = CallIDs(messages[i].ToolCalls)

(***************************************************************************)
(* C3: every tool message directly follows (with only tool messages in     *)
(* between) an assistant message of the same turn, and carries the id of   *)
(* one of that message's tool calls.                                       *)
(***************************************************************************)
C3_ToolMessageMatchesCall ==
    \A j \in 1..Len(messages) :
        messages[j].Role = "tool" =>
            /\ j > 1
            /\ LET a == messages[PrevNonTool(j)]
               IN /\ a.Role = "assistant"
                  /\ PrevNonTool(j) > LastUserIdx \/ LastUserIdx > j
                  /\ \E k \in 1..Len(a.ToolCalls) : a.ToolCalls[k].ID = messages[j].ToolCallID

\* a tool message answers the second of two calls of a reply
C3_Witness ==
    \E j \in 2..Len(messages) :
        /\ messages[j].Role = "tool"
        /\ Len(messages[j - 1].ToolCalls) = 2
        /\ messages[j].ToolCallID = messages[j - 1].ToolCalls[2].ID

(***************************************************************************)
(* C4: a tool call whose name is not in the registry executes nothing and  *)
(* gets no tool message; the other calls of the reply are dispatched, and  *)
(* the loop goes on to the next model call.                                *)
(***************************************************************************)
C4_OthersDispatched ==
    \A i \in 1..Len(messages) :
        (IsToolReply(messages[i]) /\ DispatchDone(i)) =>
            ToolRunIDs(i) = RegisteredCallIDs(messages[i].ToolCalls)

C4_UnknownStep ==
    (pc = "tools" /\ ~(pending[idx].Name \in ToolNames)) =>
        /\ messages' = messages
        /\ fs' = fs
        /\ nread' = nread
        /\ eof' = eof
        /\ idx' = idx + 1
        /\ idx < Len(pending) => pc' = "tools"
        /\ (idx = Len(pending) /\ step < 4) => (pc' = "model" /\ step' = step + 1)

C4_UnknownToolIgnored == [](C4_OthersDispatched) /\ [][C4_UnknownStep]_vars

\* a reply with an unknown and a registered call was dispatched, and the
\* next model call was made
C4_Witness ==
    \E i \in 1..Len(messages) :
        /\ IsToolReply(messages[i])
        /\ \E k \in 1..Len(messages[i].ToolCalls) : messages[i].ToolCalls[k].Name \notin ToolNames
        /\ i + 2 <= Len(messages)
        /\ messages[i + 1].Role = "tool"
        /\ messages[i + 2].Role = "assistant"


(***************************************************************************)
(* Reading the most recent tool call.                                      *)
(***************************************************************************)
LastIs(name) == last.ran /\ last.call.Name = name /\ last.call.Arguments.decodes
LastPath == last.call.Arguments.path
LastContent == last.call.Arguments.content
LastResult == last.ret.result

\* the last call reached the confirmation prompt and read the line resp.text
LastAnswered ==
    /\ last.ran
    /\ last.call.Name \in {"writeFile", "editFile"}
    /\ last.ret.prompted
    /\ last.resp.ok

\* white space, one y or Y, white space
IsApproval(text) ==
    \E i \in 1..Len(text) :
        /\ text[i] \in {"y", "Y"}
        /\ \A j \in 1..Len(text) : j # i => text[j] \in {" ", "\t", "\n", "\r"}

\* the tool went on past the prompt to its file system calls
WentOn == \E i \in 1..Len(last.ret.steps) : last.ret.steps[i] \in {"mkdir", "create"}

\* a proper ancestor of p is a regular file
RECURSIVE FileAncestor(_, _)
FileAncestor(f, p) ==
    IF Len(p) <= 1 THEN FALSE
    ELSE f[Dir(p)].kind = "file" \/ FileAncestor(f, Dir(p))

RECURSIVE ProperAncestors(_)
ProperAncestors(p) ==
    IF Len(p) <= 1 THEN {} ELSE {Dir(p)} \cup ProperAncestors(Dir(p))

(***************************************************************************)
(* C5 as stated: the gate approves only the lines "y" and "Y"; any other   *)
(* line, "Y " with a trailing space included, cancels and nothing is       *)
(* written.                                                                *)
(***************************************************************************)
C5_ExactLiteralOnly ==
    (LastAnswered /\ last.resp.text # <<"y">> /\ last.resp.text # <<"Y">>) =>
        /\ LastResult.error = ErrCancelled
        /\ last.after = last.before

(***************************************************************************)
(* C5 amended: the gate approves exactly the lines that are y or Y once    *)
(* the surrounding white space is trimmed ("Y " and " y" approve); every   *)
(* other line ("", "n", "yes") cancels and nothing is written.             *)
(***************************************************************************)
C5_TrimmedLiteral ==
    LastAnswered =>
        IF IsApproval(last.resp.text)
        THEN LastResult.error # ErrCancelled /\ WentOn
        ELSE /\ LastResult.error = ErrCancelled
             /\ ~LastResult.success
             /\ ~WentOn
             /\ last.after = last.before

C5_Witness ==
    /\ LastAnswered
    /\ last.resp.text = <<"Y", " ">>
    /\ LastResult.success
    /\ last.after # last.before

(***************************************************************************)
(* C6: writeFile on a path that exists returns success=false with an       *)
(* error, asks nothing of the operator, reads no line of input and leaves  *)
(* the file tree as it was.                                                *)
(***************************************************************************)
C6_WriteExisting ==
    (LastIs("writeFile") /\ StatOK(last.before, LastPath)) =>
        /\ last.ret.err = "nil"
        /\ ~LastResult.success
        /\ LastResult.error # ""
        /\ ~last.ret.prompted
        /\ last.nreadAfter = last.nreadBefore
        /\ last.after = last.before

C6_Witness ==
    /\ LastIs("writeFile")
    /\ last.before[LastPath].kind = "file"
    /\ last.before[LastPath].data # LastContent
    /\ fs[LastPath] = last.before[LastPath]

(***************************************************************************)
(* C7: editFile on a path that does not exist returns success=false with   *)
(* an error, asks nothing of the operator and creates nothing: the path    *)
(* still does not exist.                                                   *)
(***************************************************************************)
C7_EditMissing ==
    (LastIs("editFile") /\ ~StatOK(last.before, LastPath)) =>
        /\ last.ret.err = "nil"
        /\ ~LastResult.success
        /\ LastResult.error # ""
        /\ ~last.ret.prompted
        /\ last.nreadAfter = last.nreadBefore
        /\ last.after = last.before
        /\ ~StatOK(last.after, LastPath)

C7_Witness ==
    /\ LastIs("editFile")
    /\ last.before[LastPath].kind = "none"
    /\ fs[LastPath].kind = "none"

(***************************************************************************)
(* C8: editFile with new_content equal to the content of the existing file *)
(* returns the no-change error, never reaches the confirmation prompt and  *)
(* leaves the file as it was.                                              *)
(***************************************************************************)
C8_EditNoChange ==
    (/\ LastIs("editFile")
     /\ StatOK(last.before, LastPath)
     /\ last.before[LastPath].kind = "file"
     /\ last.before[LastPath].data = LastContent) =>
        /\ last.ret.err = "nil"
        /\ ~LastResult.success
        /\ LastResult.error = ErrNoChange
        /\ ~last.ret.prompted
        /\ last.nreadAfter = last.nreadBefore
        /\ last.after = last.before

C8_Witness ==
    /\ LastIs("editFile")
    /\ last.before[LastPath].kind = "file"
    /\ last.before[LastPath].data = LastContent
    /\ LastResult.error = ErrNoChange

(***************************************************************************)
(* C9 as stated: writeFile on a path that does not exist, approved by the  *)
(* operator, creates the file with exactly the content and returns         *)
(* success=true.                                                           *)
(***************************************************************************)
C9_ApprovedAlwaysWrites ==
    (/\ LastIs("writeFile")
     /\ ~StatOK(last.before, LastPath)
     /\ LastAnswered
     /\ IsApproval(last.resp.text)) =>
        /\ LastResult.success
        /\ last.after[LastPath] = FileEntry(LastContent)

(***************************************************************************)
(* C9 amended: writeFile on a path that does not exist, approved by the    *)
(* operator, runs existence check, preview, gate, directory creation, file *)
(* creation and write in this order.  When directory creation, file        *)
(* creation and write succeed (no parent component is a regular file and   *)
(* the system reports no failure) the missing parent directories exist     *)
(* afterwards, the file holds exactly the content, nothing else changed    *)
(* and the result is success=true; otherwise the result is success=false.  *)
(***************************************************************************)
C9_WriteNew ==
    (/\ LastIs("writeFile")
     /\ ~StatOK(last.before, LastPath)
     /\ LastAnswered
     /\ IsApproval(last.resp.text)) =>
        /\ SubSeq(last.ret.steps, 1, 4) = <<"stat", "preview", "gate", "mkdir">>
        /\ (last.io.fault = "none" /\ ~FileAncestor(last.before, LastPath)) =>
               LastResult.success
        /\ IF LastResult.success
           THEN /\ last.ret.steps = <<"stat", "preview", "gate", "mkdir", "create", "write">>
                /\ last.after[LastPath] = FileEntry(LastContent)
                /\ \A q \in ProperAncestors(LastPath) : last.after[q] = DirEntry
                /\ \A q \in AllPaths \ (ProperAncestors(LastPath) \cup {LastPath}) :
                       last.after[q] = last.before[q]
           ELSE /\ ~LastResult.success
                /\ LastResult.error \in {ErrMkdirFail, ErrCreateFail, ErrWriteFail}

C9_Witness ==
    /\ LastIs("writeFile")
    /\ LastPath = PathSub
    /\ last.before[PathDir].kind = "none"
    /\ LastResult.success
    /\ fs[PathDir] = DirEntry
    /\ fs[PathSub] = FileEntry(LastContent)

(***************************************************************************)
(* C10: when the operator cancels at the prompt, writeFile creates nothing *)
(* and editFile leaves the file as it was; the Go error is nil, the result *)
(* is {success: false, error: cancelled}, and handleUserInput appends it   *)
(* as the tool message of that call.                                       *)
(***************************************************************************)
C10_Cancel ==
    (LastAnswered /\ ~IsApproval(last.resp.text)) =>
        /\ last.after = last.before
        /\ last.ret.err = "nil"
        /\ LastResult = [success |-> FALSE, error |-> ErrCancelled,
                         content |-> <<>>, files |-> <<>>]
        /\ last.msgsAfter = last.msgsBefore + 1
        /\ messages[last.msgsAfter].Role = "tool"
        /\ messages[last.msgsAfter].Result = LastResult
        /\ messages[last.msgsAfter].ToolCallID = last.call.ID

C10_Witness ==
    /\ LastAnswered
    /\ last.call.Name = "editFile"
    /\ last.resp.text = <<"n">>
    /\ LastResult.error = ErrCancelled
    /\ fs[LastPath] = last.before[LastPath]
    /\ messages[Len(messages)].ToolCallID = last.call.ID

(***************************************************************************)
(* C11 as stated: editFile on an existing file whose content differs from  *)
(* new_content, approved by the operator, leaves the file with exactly     *)
(* new_content and returns success=true.                                   *)
(***************************************************************************)
C11_ApprovedAlwaysReplaces ==
    (/\ LastIs("editFile")
     /\ last.before[LastPath].kind = "file"
     /\ last.before[LastPath].data # LastContent
     /\ LastAnswered
     /\ IsApproval(last.resp.text)) =>
        /\ LastResult.success
        /\ last.after[LastPath] = FileEntry(LastContent)

(***************************************************************************)
(* C11 amended: editFile on an existing file whose content differs from    *)
(* new_content, approved by the operator, opens the file with os.Create    *)
(* and writes new_content.  When both calls succeed the file holds exactly *)
(* new_content (nothing of the previous content is kept), nothing else in  *)
(* the tree changed and the result is success=true; when one of them fails *)
(* the result is success=false with an error.                              *)
(***************************************************************************)
C11_EditReplaces ==
    (/\ LastIs("editFile")
     /\ last.before[LastPath].kind = "file"
     /\ last.before[LastPath].data # LastContent
     /\ LastAnswered
     /\ IsApproval(last.resp.text)) =>
        /\ ~(last.io.fault \in {"create", "write"}) => LastResult.success
        /\ IF LastResult.success
           THEN /\ last.ret.steps =
                       <<"stat", "read", "diff", "preview", "gate", "create", "write">>
                /\ last.after = [last.before EXCEPT ![LastPath] = FileEntry(LastContent)]
           ELSE LastResult.error \in {ErrCreateFail, ErrWriteFail}

\* a longer content replaced by a shorter one
C11_Witness ==
    /\ LastIs("editFile")
    /\ LastAnswered
    /\ LastResult.success
    /\ Len(LastContent) < Len(last.before[LastPath].data)
    /\ fs[LastPath] = FileEntry(LastContent)

(***************************************************************************)
(* C12: when a tool function returns a Go error, handleUserInput does not  *)
(* return it: it appends the tool message of that call id, whose content   *)
(* is the error payload built from the error text, goes on with the        *)
(* remaining tool calls of the reply and then to the next model call while *)
(* the step budget lasts.                                                  *)
(***************************************************************************)
C12_GoErrorStep ==
    (/\ pc = "tools"
     /\ idx <= Len(pending)
     /\ pending[idx].Name \in GetAvailableTools
     /\ ~pending[idx].Arguments.decodes) =>
        /\ Len(messages') = Len(messages) + 1
        /\ SubSeq(messages', 1, Len(messages)) = messages
        /\ messages'[Len(messages')].Role = "tool"
        /\ messages'[Len(messages')].ToolCallID = pending[idx].ID
        /\ messages'[Len(messages')].Content =
               ErrorPayloadText(GoErrorText(pending[idx].Arguments))
        /\ last'.ret.err # "nil"
        /\ fs' = fs
        /\ idx' = idx + 1
        /\ idx < Len(pending) => (pc' = "tools" /\ err' = "running")
        /\ (idx = Len(pending) /\ step + 1 < maxToolCallSteps) =>
               (pc' = "model" /\ err' = "running" /\ step' = step + 1)
        /\ (idx = Len(pending) /\ step + 1 >= maxToolCallSteps) => err' = "budget"

C12_GoErrorNotReturned == [][C12_GoErrorStep]_vars

\* the call after the failed one was run, and the next model call is due
C12_Witness ==
    /\ pc = "model"
    /\ err = "running"
    /\ Len(messages) >= 3
    /\ messages[Len(messages) - 1].Role = "tool"
    /\ messages[Len(messages) - 1].Content = ErrorPayloadText(GoErrorText(BadArgsQuote))
    /\ messages[Len(messages)].Role = "tool"
    /\ LastIs("readFile")
    /\ last.seq = 2

(***************************************************************************)
(* C13: when a model call fails or returns no choices, at whatever step of *)
(* the turn, handleUserInput returns the error at once: the history keeps  *)
(* every message it held before the call, unchanged and in order, no tool  *)
(* runs, and no further model call is made in that turn.                   *)
(***************************************************************************)
ModelErrors == {"api", "nochoices"}

\* a turn is in progress exactly while its error is still "running"
C13_FailedTurnIsOver ==
    /\ pc \in {"model", "tools"} => err = "running"
    /\ err \in ModelErrors => pc \in {"prompt", "exited"}

C13_FailStep ==
    \* the failing call
    /\ (pc = "model" /\ err' \in ModelErrors) =>
          /\ messages' = messages
          /\ pc' = "prompt"
          /\ turnCalls' = turnCalls + 1
          /\ fs' = fs /\ nread' = nread /\ last' = last /\ toolRuns' = toolRuns
    \* after it, until the next turn starts
    /\ (err \in ModelErrors /\ turns' = turns) =>
          /\ turnCalls' = turnCalls
          /\ messages' = messages
          /\ fs' = fs /\ last' = last /\ toolRuns' = toolRuns

C13_ModelFailureKeepsHistory == [](C13_FailedTurnIsOver) /\ [][C13_FailStep]_vars

\* a failure at the third step of a turn, after two steps with tool messages
C13_Witness ==
    /\ err \in ModelErrors
    /\ turnCalls = 3
    /\ NumToolReplies = 2
    /\ LastUserIdx > 1
    /\ \E j \in (LastUserIdx + 1)..Len(messages) : messages[j].Role = "tool"

(***************************************************************************)
(* C14: when a model reply has no tool calls, handleUserInput appends it   *)
(* as the last message of the history and returns nil; no further model    *)
(* call is made and no tool runs in that turn.                             *)
(***************************************************************************)
IsFinalReply(m) == m.Role = "assistant" /\ m.ToolCalls = <<>>

\* a turn that returned nil left the final reply at the end of the history
C14_FinalReplyIsLast ==
    (turns > 0 /\ err = "nil") =>
        /\ pc \in {"prompt", "exited"}
        /\ IsFinalReply(messages[Len(messages)])

C14_FinalStep ==
    \* the step that receives the reply
    /\ (/\ pc = "model"
        /\ Len(messages') = Len(messages) + 1
        /\ IsFinalReply(messages'[Len(messages')])) =>
          /\ SubSeq(messages', 1, Len(messages)) = messages
          /\ err' = "nil"
          /\ pc' = "prompt"
          /\ turnCalls' = turnCalls + 1
          /\ fs' = fs /\ nread' = nread /\ last' = last /\ toolRuns' = toolRuns
    \* after it, until the next turn starts
    /\ (turns > 0 /\ err = "nil" /\ turns' = turns) =>
          /\ turnCalls' = turnCalls
          /\ messages' = messages
          /\ fs' = fs /\ last' = last /\ toolRuns' = toolRuns

C14_FinalReplyEndsTurn == [](C14_FinalReplyIsLast) /\ [][C14_FinalStep]_vars

\* a final reply at the second step of a turn, after a step with a tool call
C14_Witness ==
    /\ turns > 0
    /\ err = "nil"
    /\ turnCalls = 2
    /\ IsFinalReply(messages[Len(messages)])
    /\ messages[Len(messages) - 1].Role = "tool"

(***************************************************************************)
(* C15: every message the Orchestrator appends during a turn (the user     *)
(* message, each model reply, each tool result) is saved to the store      *)
(* before its next step: between two steps the persisted log of the        *)
(* session holds, in order, the messages appended to the history so far.   *)
(***************************************************************************)
C15_SavedBeforeNextStep ==
    \E s \in Sessions :
        LET log == getSessionMessages(table, s)
        IN /\ Len(log) = Len(messages) - 1
           /\ \A i \in 1..Len(log) : log[i].Role = messages[i + 1].Role

(***************************************************************************)
(* C16: after saving a sequence of messages for a session S, restoring S   *)
(* yields the user and assistant messages of that sequence, with their     *)
(* contents, in the order they were saved, and no tool message; messages   *)
(* saved for another session do not appear.                                *)
(***************************************************************************)
IsUserOrAssistant(m) == m.Role # "tool"

C16_RoundTrip ==
    /\ \A s \in Sessions : restoreSession(table, s) = SelectSeq(sent[s], IsUserOrAssistant)
    /\ restored.done =>
          /\ restored.history = SelectSeq(restored.sentThen, IsUserOrAssistant)
          /\ \A i \in 1..Len(restored.history) : restored.history[i].Role # "tool"

\* three messages saved within one tick of the clock, one of them a tool
\* message, and the session restored
C16_Witness ==
    /\ restored.done
    /\ Len(restored.sentThen) = 3
    /\ \E i \in 1..3 : restored.sentThen[i].Role = "tool"
    /\ Len(restored.history) = 2
    /\ restored.history[1].Content # restored.history[2].Content
    /\ \A r \in table : r.Timestamp = 0 /\ r.SessionID = restored.session

(***************************************************************************)
(* C17: the content of every tool message handleUserInput appends is       *)
(* well-formed JSON, for the results the tools marshal and for the payload *)
(* that wraps a Go error, whatever characters the error text holds.        *)
(***************************************************************************)
C17_ToolContentWellFormed ==
    \A i \in 1..Len(messages) :
        messages[i].Role = "tool" => WellFormedJSON(messages[i].Content)

(***************************************************************************)
(* C18: each of the five tools returns a Go error exactly when its         *)
(* argument text does not decode; every other failure (missing file,       *)
(* unreadable directory, walk error, existing or missing target, failed    *)
(* write, failed read of the operator's response, cancellation) comes back *)
(* with a nil Go error and a result whose error field is not empty.        *)
(***************************************************************************)
\* the call could not do what it was asked, judged from the tree it found,
\* the operator's answer and the outcome of its file system calls
LastFailed ==
    LET p == LastPath
        f == last.before
        isDir == StatOK(f, p) /\ KindOf(f, p) = "dir"
    IN CASE last.call.Name = "readFile" -> ~StatOK(f, p) \/ isDir
         [] last.call.Name = "list" ->
                \/ ~StatOK(f, p)
                \/ (~last.call.Arguments.recursive /\ ~isDir)
                \/ (isDir /\ last.io.fault = "readdir")
         [] last.call.Name = "searchInDirectory" ->
                \/ ~StatOK(f, p)
                \/ (/\ isDir /\ last.io.fault = "readdir"
                    /\ ~Excluded(p, last.call.Arguments.excludePaths))
         [] last.call.Name = "writeFile" ->
                \/ StatOK(f, p)
                \/ ~last.resp.ok
                \/ ~IsApproval(last.resp.text)
                \/ last.after[p] # FileEntry(LastContent)
         [] last.call.Name = "editFile" ->
                \/ ~StatOK(f, p)
                \/ isDir
                \/ f[p].data = LastContent
                \/ ~last.resp.ok
                \/ ~IsApproval(last.resp.text)
                \/ last.after[p] # FileEntry(LastContent)

C18_GoErrorOnlyOnDecode ==
    last.ran =>
        /\ (last.ret.err # "nil") <=> ~last.call.Arguments.decodes
        /\ (last.call.Arguments.decodes /\ LastFailed) =>
               (last.ret.err = "nil" /\ LastResult.error # "")
        /\ (last.call.Arguments.decodes /\ ~LastFailed) => LastResult.error = ""

\* a missing directory listed
C18_Witness ==
    /\ LastIs("list")
    /\ ~StatOK(last.before, LastPath)
    /\ last.ret.err = "nil"
    /\ LastResult.error = ErrReadDirFail

(***************************************************************************)
(* C19: the tool calls of one reply run one at a time in array order; the  *)
(* tool message of call i is appended before call i+1 starts, and call     *)
(* i+1 finds the file tree as call i left it: a readFile that follows a    *)
(* successful writeFile of the same path in the same reply reads the       *)
(* written content.                                                        *)
(***************************************************************************)
\* one pass of the range loop handles the call at idx and no other
C19_DispatchStep ==
    (pc = "tools" /\ idx' # idx) =>
        /\ idx' = idx + 1
        /\ last'.call = pending[idx]
        /\ last'.seq = idx
        /\ last'.before = fs
        /\ fs' = last'.ret.fs
        /\ pending[idx].Name \in GetAvailableTools =>
              /\ Len(messages') = Len(messages) + 1
              /\ SubSeq(messages', 1, Len(messages)) = messages
              /\ messages'[Len(messages')].Role = "tool"
              /\ messages'[Len(messages')].ToolCallID = pending[idx].ID
        /\ (idx < Len(pending)) => (pc' = "tools" /\ pending' = pending)

\* readFile as the second call, after a writeFile of the same path that
\* reported success in its tool message
ReadAfterWrite ==
    /\ LastIs("readFile")
    /\ last.seq = 2
    /\ Len(pending) >= 2
    /\ pending[2] = last.call
    /\ pending[1].Name = "writeFile"
    /\ pending[1].Arguments.path = LastPath
    /\ messages[last.msgsBefore].ToolCallID = pending[1].ID
    /\ messages[last.msgsBefore].Result.success

C19_EffectsVisible ==
    ReadAfterWrite =>
        /\ LastResult.error = ""
        /\ LastResult.content = pending[1].Arguments.content
        /\ messages[last.msgsAfter].ToolCallID = pending[2].ID
        /\ last.msgsAfter = last.msgsBefore + 1

C19_SequentialDispatch == [](C19_EffectsVisible) /\ [][C19_DispatchStep]_vars

C19_Witness ==
    /\ ReadAfterWrite
    /\ last.before[LastPath] = FileEntry(pending[1].Arguments.content)
    /\ LastResult.content # <<>>

(***************************************************************************)
(* C20: in the read loop of main a line that is exit or quit after         *)
(* trimming ends the program without a model call, and a line that is      *)
(* empty after trimming is ignored: no model call, history unchanged.      *)
(***************************************************************************)
\* main took a line from the scanner in this step
LineTaken == pc = "prompt" /\ (nread' # nread \/ scanBuf' # scanBuf)

C20_LineStep ==
    /\ LineTaken =>
         LET userInput == TrimSpace(scanText')
         IN /\ userInput \in {StrExit, StrQuit} =>
                 /\ pc' = "exited"
                 /\ modelCalls' = modelCalls
                 /\ messages' = messages
            /\ userInput = <<>> =>
                 /\ pc' = "prompt"
                 /\ modelCalls' = modelCalls
                 /\ messages' = messages
                 /\ turns' = turns
    \* the model is called only from handleUserInput, never at the prompt
    /\ modelCalls' # modelCalls => pc = "model"
    \* once main has returned nothing runs any more
    /\ pc = "exited" => UNCHANGED vars

C20_ExitAndBlankLines == [][C20_LineStep]_vars

\* a line of blanks was taken and ignored, and a padded quit is the next
\* line of the scanner
C20_Witness ==
    /\ pc = "prompt"
    /\ turns = 0
    /\ modelCalls = 0
    /\ messages = <<SystemMessage>>
    /\ scanText # <<>>
    /\ TrimSpace(scanText) = <<>>
    /\ scanBuf # <<>>
    /\ Head(scanBuf).text # StrQuit
    /\ TrimSpace(Head(scanBuf).text) = StrQuit

(***************************************************************************)
(* C21: searchInDirectory returns exactly the files under path that are    *)
(* not pruned and that contain the keyword on at least one line, each at   *)
(* most once; a visited path whose string starts with an excludePaths      *)
(* entry is pruned, a directory with its whole subtree; a file that cannot *)
(* be opened is skipped without failing the search.                        *)
(***************************************************************************)
\* q is p or lies under p
IsUnder(q, p) == Len(p) <= Len(q) /\ SubSeq(q, 1, Len(p)) = p

\* no path from the start of the walk down to q starts with an excluded prefix
NotPruned(q, root, excludePaths) ==
    \A i \in Len(root)..Len(q) : ~Excluded(SubSeq(q, 1, i), excludePaths)

\* the text has a line that contains the keyword
HasKeywordLine(text, keyword) ==
    LET lines == ScanLinesUnlimited(text, <<>>)
    IN \E i \in 1..Len(lines) : Contains(lines[i], keyword)

\* the regular files under root, in a tree f, that the search is to report
Matching(f, root, args) ==
    {q \in AllPaths :
        /\ IsUnder(q, root)
        /\ StatOK(f, q)
        /\ f[q].kind = "file"
        /\ NotPruned(q, root, args.excludePaths)
        /\ HasKeywordLine(f[q].data, args.keyword)}

Range(s) == {s[i] : i \in 1..Len(s)}

NoDuplicates(s) == \A i, j \in 1..Len(s) : s[i] = s[j] => i = j

C21_SearchExact ==
    (LastIs("searchInDirectory") /\ LastResult.error = "" /\ last.io.fault # "open") =>
        /\ Range(LastResult.files) = Matching(last.before, LastPath, last.call.Arguments)
        /\ NoDuplicates(LastResult.files)

(***************************************************************************)
(* C22: list with recursive=false returns only the immediate children of   *)
(* path; with recursive=true it returns every file and directory reached   *)
(* by the walk; if the walk reports an error at any entry, the result      *)
(* carries only the error and an empty file list, never the entries        *)
(* collected before the error.                                             *)
(***************************************************************************)
\* the paths that exist in the tree f at or below p
Reached(f, p) == {q \in AllPaths \cup {<<>>} : IsUnder(q, p) /\ StatOK(f, q)}

\* the directories among them: the ones a walk from p reads
DirsReached(f, p) == {q \in Reached(f, p) : KindOf(f, q) = "dir"}

C22_ListResult ==
    LastIs("list") =>
        LET f == last.before
            p == LastPath
            recursive == last.call.Arguments.recursive
            hit == /\ last.io.fault = "readdir"
                   /\ last.io.n < (IF recursive THEN Cardinality(DirsReached(f, p)) ELSE 1)
        IN /\ LastResult.error # "" => LastResult.files = <<>>
           /\ (StatOK(f, p) /\ hit) => LastResult.error # ""
           /\ (LastResult.error = "" /\ ~recursive) =>
                 /\ Range(LastResult.files) = {q \in Reached(f, p) : q # p /\ Dir(q) = p}
                 /\ NoDuplicates(LastResult.files)
           /\ (LastResult.error = "" /\ recursive) =>
                 /\ Range(LastResult.files) = Reached(f, p)
                 /\ NoDuplicates(LastResult.files)
           /\ last.after = f

\* a recursive list whose walk has visited the start directory and then
\* fails to read the directory d below it
C22_Witness ==
    /\ LastIs("list")
    /\ last.call.Arguments.recursive
    /\ LastPath = <<>>
    /\ KindOf(last.before, PathDir) = "dir"
    /\ last.io = [fault |-> "readdir", n |-> 1]
    /\ LastResult.error = ErrWalkFail
    /\ LastResult.files = <<>>

(***************************************************************************)
(* C23: provided every model call, tool call and operator read returns,    *)
(* every turn of handleUserInput terminates after at least 1 and at most 5 *)
(* model calls in exactly one of three outcomes: a final answer (nil), a   *)
(* failed model call or empty choice set, or step budget exceeded; the     *)
(* step counter starts at 0 in every turn, so the calls of earlier turns   *)
(* never reduce the budget of a later turn.                                *)
(***************************************************************************)
InTurn == pc \in {"model", "tools"}

TurnOver == pc \in {"prompt", "exited"}

\* the state of a turn that has returned
C23_Outcome ==
    (turns > 0 /\ TurnOver) =>
        /\ err \in {"nil", "budget"} \cup ModelErrors
        /\ turnCalls >= 1
        /\ turnCalls <= maxToolCallSteps
        /\ err = "nil" <=> IsFinalReply(messages[Len(messages)])
        /\ err = "budget" =>
              /\ step = maxToolCallSteps
              /\ turnCalls = maxToolCallSteps
              /\ NumToolReplies = maxToolCallSteps
        /\ err \in ModelErrors => NumToolReplies = turnCalls - 1

C23_TurnStep ==
    \* the turn starts with the counter at 0, whatever went before
    /\ turns' # turns =>
          /\ turns' = turns + 1
          /\ step' = 0
          /\ turnCalls' = 0
          /\ pc' = "model"
    \* the counter counts the steps of this turn that ended with tool calls
    /\ (InTurn /\ step' # step) => (step' = step + 1 /\ step' = turnCalls')
    /\ InTurn => turnCalls' \in {turnCalls, turnCalls + 1}
    /\ InTurn' => step' = NumToolReplies' - (IF pc' = "tools" THEN 1 ELSE 0)

C23_TurnTerminates ==
    /\ [](C23_Outcome)
    /\ [][C23_TurnStep]_vars
    /\ (InTurn ~> TurnOver)

\* a second turn that used the whole budget of five calls after a first
\* turn that made a call of its own
C23_Witness ==
    /\ turns = 2
    /\ modelCalls = 6
    /\ turnCalls = 5
    /\ err = "budget"
    /\ pc = "prompt"

(***************************************************************************)
(* C24: a turn that ends with an error (failed model call, empty choice    *)
(* set, step budget exceeded) does not end the program: main goes back to  *)
(* the prompt and reads the next line, and the next turn runs with a fresh *)
(* step budget.                                                            *)
(***************************************************************************)
TurnErrors == ModelErrors \cup {"budget"}

C24_ErrorStep ==
    \* the step that ends a turn with an error leaves main at its prompt
    /\ (InTurn /\ err' \in TurnErrors) => pc' = "prompt"
    \* only exit, quit or the end of the input end the program
    /\ (pc # "exited" /\ pc' = "exited") =>
          /\ pc = "prompt"
          /\ eof' \/ TrimSpace(scanText') \in {StrExit, StrQuit}
    \* after a failed turn the next line is read like any other, and a turn
    \* it starts has its counter at 0
    /\ (err \in TurnErrors /\ (nread' # nread \/ scanBuf' # scanBuf)) =>
          LET userInput == TrimSpace(scanText')
          IN /\ pc = "prompt"
             /\ (userInput # <<>> /\ userInput \notin {StrExit, StrQuit}) =>
                   /\ messages' = Append(messages, UserMessage(userInput))
                   /\ turns' = turns + 1
                   /\ step' = 0
                   /\ turnCalls' = 0
                   /\ err' = "running"
                   /\ pc' = "model"

C24_ErrorKeepsProgram ==
    /\ [](err \in TurnErrors => pc \in {"prompt", "exited"})
    /\ [][C24_ErrorStep]_vars

\* the first turn failed at its only model call: its user message has no
\* reply; the second turn then made all five calls of its own budget
C24_Witness ==
    /\ turns = 2
    /\ Len(messages) >= 3
    /\ messages[2].Role = "user"
    /\ messages[3].Role = "user"
    /\ turnCalls = 5
    /\ NumToolReplies = 5
    /\ err = "budget"
    /\ pc = "prompt"

(***************************************************************************)
(* C25: the in-memory history is append-only over the whole run: whatever  *)
(* the outcome of handleUserInput, the history it returns has the history  *)
(* it received as a prefix, and main adopts it also when the turn failed,  *)
(* so the messages of a failed turn are part of the request of every later *)
(* model call.                                                             *)
(***************************************************************************)
IsPrefix(s, t) == Len(s) <= Len(t) /\ SubSeq(t, 1, Len(s)) = s

UserIdxs == {i \in 1..Len(messages) : messages[i].Role = "user"}

C25_AppendStep ==
    /\ IsPrefix(messages, messages')
    \* a step appends at most one message
    /\ Len(messages') <= Len(messages) + 1
    \* the end of a turn, failed or not, hands main the history as it stands
    /\ (InTurn /\ TurnOver') =>
          /\ IsPrefix(messages, messages')
          /\ (err' \in TurnErrors /\ err' # "budget") => messages' = messages

\* the user message of every turn so far is in the history: no turn, failed
\* or not, was taken back
C25_TurnsKept ==
    /\ Cardinality(UserIdxs) = turns
    /\ messages[1] = SystemMessage

C25_AppendOnly == [](C25_TurnsKept) /\ [][C25_AppendStep]_vars

\* the second turn has made a model call; its request held the first turn,
\* which failed after a tool call and its result
C25_Witness ==
    /\ turns = 2
    /\ turnCalls >= 1
    /\ LastUserIdx > 3
    /\ messages[2].Role = "user"
    /\ IsToolReply(messages[3])
    /\ messages[LastUserIdx - 1].Role = "tool"

(***************************************************************************)
(* C26: when the reply of the last budgeted step (the fifth model call of  *)
(* a turn) carries tool calls, they are still executed, writeFile and      *)
(* editFile with their effects on the files included, and their results    *)
(* are appended to the history before the turn fails with the step budget  *)
(* error; no model call of that turn sees these results.                   *)
(***************************************************************************)
\* the tool calls being dispatched are those of the model call just made
C26_DispatchIsOfLastCall ==
    pc = "tools" =>
        /\ step = turnCalls - 1
        /\ idx <= Len(pending)
        /\ \E i \in 1..Len(messages) :
              /\ messages[i].ToolCalls = pending
              /\ \A j \in (i + 1)..Len(messages) : messages[j].Role = "tool"

C26_LastStep ==
    \* a reply with tool calls is dispatched whatever the step
    /\ (/\ pc = "model"
        /\ Len(messages') = Len(messages) + 1
        /\ IsToolReply(messages'[Len(messages')])) =>
          /\ pc' = "tools"
          /\ pending' = messages'[Len(messages')].ToolCalls
          /\ idx' = 1
    \* the calls of the fifth reply run like those of any other
    /\ (pc = "tools" /\ turnCalls = maxToolCallSteps /\ idx' # idx) =>
          /\ modelCalls' = modelCalls
          /\ turnCalls' = turnCalls
          /\ pending[idx].Name \in GetAvailableTools =>
                /\ last'.ran
                /\ last'.call = pending[idx]
                /\ last'.before = fs
                /\ fs' = last'.ret.fs
                /\ Len(messages') = Len(messages) + 1
                /\ SubSeq(messages', 1, Len(messages)) = messages
                /\ messages'[Len(messages')].Role = "tool"
                /\ messages'[Len(messages')].ToolCallID = pending[idx].ID
          /\ IF idx < Len(pending)
             THEN pc' = "tools" /\ err' = "running"
             ELSE pc' = "prompt" /\ err' = "budget" /\ step' = maxToolCallSteps
    \* once the budget error is returned the turn makes no model call
    /\ (err = "budget" /\ turns' = turns) =>
          /\ turnCalls' = turnCalls
          /\ messages' = messages
          /\ fs' = fs

C26_LastReplyToolsRun == [](C26_DispatchIsOfLastCall) /\ [][C26_LastStep]_vars

\* the turn failed with the budget error right after a writeFile of its
\* fifth reply created the file and its result became the last message
C26_Witness ==
    /\ err = "budget"
    /\ turnCalls = 5
    /\ LastIs("writeFile")
    /\ LastResult.success
    /\ ~StatOK(last.before, LastPath)
    /\ fs[LastPath] = FileEntry(LastContent)
    /\ last.msgsAfter = Len(messages)
    /\ messages[Len(messages)].Role = "tool"
    /\ messages[Len(messages)].ToolCallID = last.call.ID

(***************************************************************************)
(* C27: the confirmation gate consumes exactly one line of standard input, *)
(* the line that follows the user line of the turn; between the scanner of *)
(* main and the scanner each writeFile/editFile call creates no line is    *)
(* lost or read out of order, so the prompt after the turn reads the line  *)
(* that follows the confirmation line.                                     *)
(***************************************************************************)
\* the number, in standard input, of the line main takes in this step
MainLineNo == IF scanBuf # <<>> THEN Head(scanBuf).n ELSE nread + 1

C27_GateStep ==
    \* the step of a tool that asks for confirmation
    /\ (pc = "tools" /\ idx' # idx /\ last'.ret.prompted) =>
          \* no line typed before the answer is still waiting in main's scanner
          /\ scanBuf = <<>>
          \* the scanner of the tool takes one line from the input, its answer
          /\ last'.resp.ok => (last'.lineNo = nread + 1 /\ nread' = nread + 1)
          /\ ~last'.resp.ok => nread' = nread
    \* main takes the lines in order: the line after the last one consumed
    /\ (LineTaken /\ last.lineNo # 0 /\ last.nreadAfter = nread /\ scanBuf = <<>>) =>
          MainLineNo = last.lineNo + 1

C27_GateReadsNextLine == [][C27_GateStep]_vars

(***************************************************************************)
(* C28: whenever writeFile or editFile returns a result with success=false *)
(* the file tree is as it was before the call: editFile leaves the target  *)
(* with its old content, writeFile leaves no new file and no new           *)
(* directory, also when the creation of a directory, the creation of the   *)
(* file or the write fails after the approval.                             *)
(***************************************************************************)
C28_FailureLeavesTree ==
    ((LastIs("writeFile") \/ LastIs("editFile")) /\ ~LastResult.success) =>
        last.after = last.before

(***************************************************************************)
(* C29: editFile returns the no-change error if and only if new_content    *)
(* equals the current content of the file: for every pair of different old *)
(* and new contents the unified diff is non-empty, so a real change always *)
(* reaches the confirmation gate and is never rejected as a no-op.         *)
(***************************************************************************)
C29_NoChangeIffEqual ==
    (LastIs("editFile") /\ StatOK(last.before, LastPath)
        /\ KindOf(last.before, LastPath) = "file") =>
        LET oldContent == last.before[LastPath].data
        IN /\ LastResult.error = ErrNoChange <=> LastContent = oldContent
           /\ LastContent # oldContent =>
                 /\ formatUnifiedDiff(oldContent, LastContent) # <<>>
                 /\ last.ret.prompted
           /\ LastContent = oldContent =>
                 /\ ~last.ret.prompted
                 /\ last.after = last.before

\* an edit that only adds the final line break reached the gate and, being
\* approved, was written
C29_Witness ==
    /\ LastIs("editFile")
    /\ last.before[LastPath] = FileEntry(<<"a">>)
    /\ LastContent = <<"a", "\n">>
    /\ last.ret.prompted
    /\ LastResult.success
    /\ fs[LastPath] = FileEntry(<<"a", "\n">>)

(***************************************************************************)
(* C30: every tool schema sent to the model is dispatchable: in the        *)
(* registry of GetAvailableTools each key equals the Function.Name of its  *)
(* entry's schema, the keys are exactly readFile, list, searchInDirectory, *)
(* writeFile and editFile, and so a tool call that uses an advertised name *)
(* always finds its tool in handleUserInput.                               *)
(***************************************************************************)
\* the names the request advertises
AdvertisedNames == {schema.Name : schema \in toolSchemas}

C30_KeysAreSchemaNames ==
    /\ \A name \in DOMAIN tools : tools[name].Schema.Name = name
    /\ DOMAIN tools = {"readFile", "list", "searchInDirectory", "writeFile", "editFile"}
    /\ AdvertisedNames = DOMAIN tools
    /\ Cardinality(toolSchemas) = Cardinality(DOMAIN tools)

\* the lookup of an advertised name succeeds: the tool runs and is answered
C30_LookupStep ==
    (pc = "tools" /\ idx' # idx /\ pending[idx].Name \in AdvertisedNames) =>
        /\ last'.ran
        /\ last'.call = pending[idx]
        /\ last'.ret = ToolFunction(pending[idx].Name, pending[idx].Arguments, fs,
                                    last'.resp, last'.io)
        /\ Len(messages') = Len(messages) + 1
        /\ messages'[Len(messages')].Role = "tool"
        /\ messages'[Len(messages')].ToolCallID = pending[idx].ID

C30_AdvertisedIsDispatchable == [](C30_KeysAreSchemaNames) /\ [][C30_LookupStep]_vars

\* a call of the advertised name writeFile found its tool, which ran
C30_Witness ==
    /\ last.ran
    /\ last.call.Name = "writeFile"
    /\ last.call.Name \in AdvertisedNames
    /\ last.ret.steps # <<>>
    /\ messages[last.msgsAfter].ToolCallID = last.call.ID

====
